---------------------------- MODULE Spec2Model ----------------------------
(***************************************************************************)
(* Verification model of the time-in-translation extractors:               *)
(*   - the PresentPerfect construction model      (src/extractor/models.py) *)
(*   - present perfect detection                  (src/dpc.py)              *)
(*   - Europarl alignment parsing and resolution                            *)
(*                                   (src/corpora/europarl/extractor.py)    *)
(* Python strings are modelled as sequences of one-character strings, so    *)
(* that splitting, formatting and prefix tests are computed, not assumed.   *)
(* Each subsystem has its own specification over the shared variables; the  *)
(* variables a specification does not use stay at their idle value.         *)
(***************************************************************************)
EXTENDS Integers, Sequences, FiniteSets, TLC

VARIABLES
    words,            \* models.py: PresentPerfect.words of each object
    aux_of,           \* ghost: the (aux_verb, aux_lemma) an object was created with
    last,             \* ghost: the last models.py operation and the state before it
    tree,             \* dpc.py: the element checked (position 1) and its following siblings
    config,           \* dpc.py: the configuration section of the source language
    detected,         \* dpc.py: what check_present_perfect returned for tree[1]
    dpc,              \* dpc.py: an extractor, its alignment files and a get_translated_lines call
    l_from,           \* europarl: the extractor's source language
    l_to,             \* europarl: the extractor's list of target languages
    linkGrp,          \* europarl: the <link> records of the link group being parsed
    alignment_trees,  \* europarl: the Alignment lists per target language
    raised,           \* europarl: the exception the last operation raised ("" for none)
    call,             \* europarl: the arguments of the last get_translated_lines call
    resolved,         \* europarl: what that call returned
    back,             \* europarl: a resolution in the opposite direction and its result
    average,          \* europarl: what average_alignment_certainty returned
    french,           \* europarl: a EuroparlFrenchArticleExtractor, a sentence and its results
    corpus,           \* europarl: the alignment files of each data folder (the file system)
    sentence_ids,     \* europarl: self.sentence_ids, the sentences to restrict the results to
    alignment_xmls,   \* europarl: self.alignment_xmls, the parsed alignment file per target language
    translation_trees,\* europarl: the translation trees of the last file processed
    results,          \* europarl: the rows the last process_file returned
    sorted_files,     \* europarl: what the last sort_by_alignment_certainty returned
    builds,           \* ghost: how often the alignments of each (file, language) were built
    run               \* ghost: the last operation on the extractor and the cache before it

modelsVars == <<words, aux_of, last>>
detectVars == <<tree, config, detected>>
europarlVars == <<l_from, l_to, linkGrp, alignment_trees, raised, call, resolved,
                  back, average>>
runVars == <<corpus, sentence_ids, alignment_xmls, translation_trees, results,
             sorted_files, builds, run>>
linesVars == <<dpc>>
frenchVars == <<french>>
vars == <<modelsVars, detectVars, europarlVars, runVars, linesVars, frenchVars>>

(***************************************************************************)
(* Bounds of the model                                                      *)
(***************************************************************************)
MaxWords == 3
MaxSiblings == 3
MaxLinks == 2
MaxOps == 2

(***************************************************************************)
(* Python strings                                                           *)
(***************************************************************************)

\* s.startswith(prefix)
StartsWith(s, prefix) ==
    /\ Len(prefix) <= Len(s)
    /\ SubSeq(s, 1, Len(prefix)) = prefix

\* sub in s, for two strings
IsSubstring(sub, s) ==
    \E i \in 0..(Len(s) - Len(sub)) : SubSeq(s, i + 1, i + Len(sub)) = sub

RECURSIVE SplitFrom(_, _, _, _)
\* The rest of s.split(sep) from position i on, cur being the piece collected so far.
SplitFrom(s, sep, i, cur) ==
    IF i > Len(s) THEN <<cur>>
    ELSE IF i + Len(sep) - 1 <= Len(s) /\ SubSeq(s, i, i + Len(sep) - 1) = sep
         THEN <<cur>> \o SplitFrom(s, sep, i + Len(sep), <<>>)
         ELSE SplitFrom(s, sep, i + 1, Append(cur, s[i]))

\* s.split(sep) for a non-empty separator: always at least one piece.
Split(s, sep) == SplitFrom(s, sep, 1, <<>>)

\* The sequences over S of length 0..n
SeqsUpTo(S, n) == UNION { [1..k -> S] : k \in 0..n }

\* x in xs, for a list xs
InList(x, xs) == \E i \in 1..Len(xs) : xs[i] = x

(***************************************************************************)
(* src/dpc.py: PerfectExtractor.check_present_perfect                       *)
(***************************************************************************)

\* string.punctuation, without the backquote (which a TLA+ string cannot
\* hold); no text of the model contains a backquote.
Punctuation ==
    <<"!", "\"", "#", "$", "%", "&", "'", "(", ")", "*", "+", ",", "-", ".", "/",
      ":", ";", "<", "=", ">", "?", "@", "[", "\\", "]", "^", "_", "{", "|",
      "}", "~">>

\* A <w> element: its text, its lemma attribute and its ana attribute (the tag).
W(text, lemma, ana) == [text |-> text, lemma |-> lemma, ana |-> ana]

\* The auxiliaries the configured xpath selects as elements to check.
Auxiliaries ==
    { W(<<"h", "a", "s">>, "have", <<"V", "a">>),
      W(<<"i", "s">>, "be", <<"V", "a">>) }

\* The elements that may follow: participles, an adverb, a comma, a finite
\* verb, and a mistagged dash carrying the participle tag.
SiblingWords ==
    { W(<<"b", "e", "e", "n">>, "be", <<"V", "d">>),
      W(<<"l", "o", "v", "e", "d">>, "love", <<"V", "d">>),
      W(<<"g", "o", "n", "e">>, "go", <<"V", "d">>),
      W(<<"a", "l", "w", "a", "y", "s">>, "always", <<"B">>),
      W(<<",">>, ",", <<"L">>),
      W(<<"s", "a", "y", "s">>, "say", <<"V", "f">>),
      W(<<"-">>, "be", <<"V", "d">>) }

\* The values of stop_tags tried: "Vf,L", and "V,L" whose first tag is a
\* prefix of the perfect tag.
StopTagSettings == { <<"V", "f", ",", "L">>, <<"V", ",", "L">> }

\* The sections of dpc.cfg tried (lexical_bound is empty, or the lemma "be"
\* with the verbs of <l_from>_aux_be.txt).
Configs ==
    { [perfect_tag |-> <<"V", "d">>, ppc |-> p, ppc_lemma |-> "be",
       stop_tags |-> st, lexical_bound |-> lb,
       aux_be_list |-> IF lb = "" THEN <<>> ELSE <<"go">>] :
        p \in BOOLEAN, st \in StopTagSettings, lb \in {"", "be"} }

\* None, as the result of check_present_perfect
NotFound == [found |-> FALSE, pp |-> <<>>, nested |-> 0]

\* Mutant of is_lexically_bound: never restricts the participle.
is_lexically_bound_always(cfg, aux_verb, perfect) == TRUE

\* PerfectExtractor.is_lexically_bound
is_lexically_bound(cfg, aux_verb, perfect) ==
    LET aux_be == cfg.lexical_bound
    IN  IF aux_be = "" \/ aux_verb.lemma # aux_be
        THEN TRUE
        ELSE InList(perfect.lemma, cfg.aux_be_list)

\* sibling.get('ana').startswith(stop_tags), stop_tags being the tuple of
\* the comma-separated configured tags
StartsWithStopTag(cfg, sibling) ==
    LET stop_tags == Split(cfg.stop_tags, <<",">>)
    IN  \E i \in 1..Len(stop_tags) : StartsWith(sibling.ana, stop_tags[i])

\* Mutant of StopsWalk: stop tags are not looked at.
StopsWalk_punctuation_only(cfg, sibling) == IsSubstring(sibling.text, Punctuation)

\* The condition of the elif branch: punctuation or a stop tag.
StopsWalk(cfg, sibling) ==
    IsSubstring(sibling.text, Punctuation) \/ StartsWithStopTag(cfg, sibling)

\* Mutant of Part: every part is marked as a verb.
Part_always_verb(t, i, is_verb) == [text |-> t[i].text, is_verb |-> TRUE, origin |-> i]

\* A (text, is_verb) tuple of the pp list; origin is a ghost field holding
\* the position in tree of the element the tuple was made from.
Part(t, i, is_verb) == [text |-> t[i].text, is_verb |-> is_verb, origin |-> i]

RECURSIVE check_present_perfect(_, _, _, _)

RECURSIVE WalkSiblings_returns_parts(_, _, _, _, _, _)
\* Mutant of WalkSiblings: the parts collected are returned whether or not a
\* participle was found (return pp).
WalkSiblings_returns_parts(cfg, t, pos, i, pp, check_ppc) ==
    IF i > Len(t) THEN [found |-> TRUE, pp |-> pp, nested |-> 0]
    ELSE IF t[i].ana = cfg.perfect_tag
    THEN IF ~is_lexically_bound(cfg, t[pos], t[i])
         THEN [found |-> TRUE, pp |-> pp, nested |-> 0]
         ELSE LET pp1 == Append(pp, Part(t, i, TRUE))
                  ppc == IF check_ppc /\ t[i].lemma = cfg.ppc_lemma
                         THEN check_present_perfect(cfg, t, i, FALSE)
                         ELSE NotFound
              IN  [found |-> TRUE,
                   pp |-> IF ppc.found THEN pp1 \o Tail(ppc.pp) ELSE pp1,
                   nested |-> IF check_ppc /\ t[i].lemma = cfg.ppc_lemma
                              THEN 1 + ppc.nested ELSE 0]
    ELSE IF StopsWalk(cfg, t[i]) THEN [found |-> TRUE, pp |-> pp, nested |-> 0]
    ELSE WalkSiblings_returns_parts(cfg, t, pos, i + 1, Append(pp, Part(t, i, FALSE)), check_ppc)

RECURSIVE WalkSiblings_keeps_first(_, _, _, _, _, _)
\* Mutant of WalkSiblings: the nested construction is appended whole
\* (pp.extend(ppc)).
WalkSiblings_keeps_first(cfg, t, pos, i, pp, check_ppc) ==
    IF i > Len(t) THEN NotFound
    ELSE IF t[i].ana = cfg.perfect_tag
    THEN IF ~is_lexically_bound(cfg, t[pos], t[i])
         THEN NotFound
         ELSE LET pp1 == Append(pp, Part(t, i, TRUE))
                  ppc == IF check_ppc /\ t[i].lemma = cfg.ppc_lemma
                         THEN check_present_perfect(cfg, t, i, FALSE)
                         ELSE NotFound
              IN  [found |-> TRUE,
                   pp |-> IF ppc.found THEN pp1 \o ppc.pp ELSE pp1,
                   nested |-> IF check_ppc /\ t[i].lemma = cfg.ppc_lemma
                              THEN 1 + ppc.nested ELSE 0]
    ELSE IF StopsWalk(cfg, t[i]) THEN NotFound
    ELSE WalkSiblings_keeps_first(cfg, t, pos, i + 1, Append(pp, Part(t, i, FALSE)), check_ppc)

RECURSIVE WalkSiblings_nested_ppc(_, _, _, _, _, _)
\* Mutant of WalkSiblings: the nested check looks for a continuous form
\* again (self.check_present_perfect(sibling)).
WalkSiblings_nested_ppc(cfg, t, pos, i, pp, check_ppc) ==
    IF i > Len(t) THEN NotFound
    ELSE IF t[i].ana = cfg.perfect_tag
    THEN IF ~is_lexically_bound(cfg, t[pos], t[i])
         THEN NotFound
         ELSE LET pp1 == Append(pp, Part(t, i, TRUE))
                  ppc == IF check_ppc /\ t[i].lemma = cfg.ppc_lemma
                         THEN check_present_perfect(cfg, t, i, TRUE)
                         ELSE NotFound
              IN  [found |-> TRUE,
                   pp |-> IF ppc.found THEN pp1 \o Tail(ppc.pp) ELSE pp1,
                   nested |-> IF check_ppc /\ t[i].lemma = cfg.ppc_lemma
                              THEN 1 + ppc.nested ELSE 0]
    ELSE IF StopsWalk(cfg, t[i]) THEN NotFound
    ELSE WalkSiblings_nested_ppc(cfg, t, pos, i + 1, Append(pp, Part(t, i, FALSE)), check_ppc)

RECURSIVE WalkSiblings(_, _, _, _, _, _)
\* The for loop over element.itersiblings(), at sibling t[i], for the
\* element t[pos]; its value is what check_present_perfect returns, with
\* the ghost nested counting the nested calls made.
WalkSiblings(cfg, t, pos, i, pp, check_ppc) ==
    IF i > Len(t) THEN NotFound
    ELSE IF t[i].ana = cfg.perfect_tag
    THEN IF ~is_lexically_bound(cfg, t[pos], t[i])
         THEN NotFound
         ELSE LET pp1 == Append(pp, Part(t, i, TRUE))
                  ppc == IF check_ppc /\ t[i].lemma = cfg.ppc_lemma
                         THEN check_present_perfect(cfg, t, i, FALSE)
                         ELSE NotFound
              IN  [found |-> TRUE,
                   pp |-> IF ppc.found THEN pp1 \o Tail(ppc.pp) ELSE pp1,
                   nested |-> IF check_ppc /\ t[i].lemma = cfg.ppc_lemma
                              THEN 1 + ppc.nested ELSE 0]
    ELSE IF StopsWalk(cfg, t[i]) THEN NotFound
    ELSE WalkSiblings(cfg, t, pos, i + 1, Append(pp, Part(t, i, FALSE)), check_ppc)

\* PerfectExtractor.check_present_perfect(element, check_ppc), element = t[pos]
check_present_perfect(cfg, t, pos, check_ppc) ==
    WalkSiblings(cfg, t, pos, pos + 1, <<Part(t, pos, TRUE)>>, check_ppc /\ cfg.ppc)

NotChecked == [done |-> FALSE, found |-> FALSE, pp |-> <<>>, nested |-> 0]

\* No DPC extractor looks up translated lines
IdleLines == dpc = <<>>

\* No EuroparlFrenchArticleExtractor runs
IdleFrench == french = <<>>

IdleDetect ==
    /\ tree = <<>>
    /\ config = <<>>
    /\ detected = NotChecked

(***************************************************************************)
(* src/corpora/europarl/extractor.py: EuroparlExtractor                     *)
(***************************************************************************)

\* The order of the characters of the language codes (their code points).
Ord(c) ==
    CASE c = "e" -> 101 [] c = "f" -> 102 [] c = "l" -> 108
      [] c = "n" -> 110 [] c = "r" -> 114

RECURSIVE StrLess(_, _)
\* a < b for two strings: lexicographic by code point
StrLess(a, b) ==
    IF b = <<>> THEN FALSE
    ELSE IF a = <<>> THEN TRUE
    ELSE IF Ord(Head(a)) # Ord(Head(b)) THEN Ord(Head(a)) < Ord(Head(b))
    ELSE StrLess(Tail(a), Tail(b))

\* Mutant of Sorted: leaves the two languages in the order given.
Sorted_unsorted(a, b) == <<a, b>>

\* sorted([a, b])
Sorted(a, b) == IF StrLess(b, a) THEN <<b, a>> ELSE <<a, b>>

\* An XML attribute read with get(): None when absent, else its string.
None == [present |-> FALSE, value |-> <<>>]
Str(v) == [present |-> TRUE, value |-> v]

\* Alignment(sources, targets, certainty)
Alignment(sources, targets, certainty) ==
    [sources |-> sources, targets |-> targets, certainty |-> certainty]

\* A <link xtargets=... certainty=...> element
Link(xtargets, certainty) == [xtargets |-> xtargets, certainty |-> certainty]

\* Mutant of ParseLink: a record with an empty group is refused.
ParseLink_refuses_empty_group(link) ==
    IF ~link.xtargets.present THEN [raised |-> "AttributeError"]
    ELSE LET xtargets == Split(link.xtargets.value, <<";">>)
         IN  IF Len(xtargets) < 2 THEN [raised |-> "IndexError"]
             ELSE IF xtargets[1] = <<>> \/ xtargets[2] = <<>>
                  THEN [raised |-> "FormatError"]
                  ELSE [raised |-> "",
                        alignment |-> Alignment(Split(xtargets[1], <<" ">>),
                                                Split(xtargets[2], <<" ">>),
                                                link.certainty)]

\* The body of the loop over linkGrp.xpath('./link'): one Alignment, or the
\* exception raised (None.split, or xtargets[1] of a one-element list).
ParseLink(link) ==
    IF ~link.xtargets.present THEN [raised |-> "AttributeError"]
    ELSE LET xtargets == Split(link.xtargets.value, <<";">>)
         IN  IF Len(xtargets) < 2 THEN [raised |-> "IndexError"]
             ELSE [raised |-> "",
                   alignment |-> Alignment(Split(xtargets[1], <<" ">>),
                                           Split(xtargets[2], <<" ">>),
                                           link.certainty)]

RECURSIVE ParseLinksFrom(_, _, _)
ParseLinksFrom(links, i, alignments) ==
    IF i > Len(links) THEN [raised |-> "", alignments |-> alignments]
    ELSE LET a == ParseLink(links[i])
         IN  IF a.raised # "" THEN [raised |-> a.raised, alignments |-> <<>>]
             ELSE ParseLinksFrom(links, i + 1, Append(alignments, a.alignment))

\* parse_alignment_trees, the building of the alignments of one link group
ParseLinks(links) == ParseLinksFrom(links, 1, <<>>)

\* Mutant of PyAny: the list is tested, not its strings (if not to_lines).
PyAny_nonempty(lines) == lines # <<>>

\* any(lines): some string of the list is non-empty
PyAny(lines) == \E i \in 1..Len(lines) : lines[i] # <<>>

Digits == <<"0", "1", "2", "3", "4", "5", "6", "7", "8", "9">>

RECURSIVE IntToStr(_)
\* '{}'.format(n) for n >= 0
IntToStr(n) ==
    IF n < 10 THEN <<Digits[n + 1]>>
    ELSE IntToStr(n \div 10) \o <<Digits[(n % 10) + 1]>>

\* Mutant of AlignmentStr: the two lengths change places.
AlignmentStr_swapped(from_lines, to_lines) ==
    IF to_lines # <<>>
    THEN IntToStr(Len(to_lines)) \o <<" ", "=", ">", " ">> \o IntToStr(Len(from_lines))
    ELSE <<>>

\* Mutant of AlignmentStr: the descriptor is formatted whatever to_lines is.
AlignmentStr_unconditional(from_lines, to_lines) ==
    IntToStr(Len(from_lines)) \o <<" ", "=", ">", " ">> \o IntToStr(Len(to_lines))

\* '{} => {}'.format(len(from_lines), len(to_lines)) if to_lines else ''
AlignmentStr(from_lines, to_lines) ==
    IF to_lines # <<>>
    THEN IntToStr(Len(from_lines)) \o <<" ", "=", ">", " ">> \o IntToStr(Len(to_lines))
    ELSE <<>>

RECURSIVE FindAlignment_last(_, _, _, _)
\* Mutant of FindAlignment: the scan does not break, the last match wins.
FindAlignment_last(alignments, from_is_sources, segment_number, i) ==
    IF i > Len(alignments) THEN 0
    ELSE LET later == FindAlignment_last(alignments, from_is_sources, segment_number, i + 1)
             lines == IF from_is_sources THEN alignments[i].sources
                      ELSE alignments[i].targets
         IN  IF later # 0 THEN later
             ELSE IF InList(segment_number, lines) THEN i ELSE 0

RECURSIVE FindAlignment(_, _, _, _)
\* The for loop of get_translated_lines from the i-th alignment on: the
\* position of the alignment at which it breaks, 0 when it runs to the end.
FindAlignment(alignments, from_is_sources, segment_number, i) ==
    IF i > Len(alignments) THEN 0
    ELSE LET lines == IF from_is_sources THEN alignments[i].sources
                      ELSE alignments[i].targets
         IN  IF InList(segment_number, lines) THEN i
             ELSE FindAlignment(alignments, from_is_sources, segment_number, i + 1)

\* EuroparlExtractor.get_translated_lines
get_translated_lines(trees, language_from, language_to, segment_number) ==
    LET sl == Sorted(language_from, language_to)
        from_is_sources == (sl[1] = language_from)
        alignments == trees[language_to]
        i == FindAlignment(alignments, from_is_sources, segment_number, 1)
        from_lines == IF i = 0 THEN <<>>
                      ELSE IF from_is_sources THEN alignments[i].sources
                      ELSE alignments[i].targets
        found_lines == IF i = 0 THEN <<>>
                       ELSE IF from_is_sources THEN alignments[i].targets
                       ELSE alignments[i].sources
        to_lines == IF ~PyAny(found_lines) THEN <<>> ELSE found_lines
    IN  [from_lines |-> from_lines, to_lines |-> to_lines,
         alignment_str |-> AlignmentStr(from_lines, to_lines)]

\* The value of a decimal digit, -1 for any other character
DigitValue(c) ==
    CASE c = "0" -> 0 [] c = "1" -> 1 [] c = "2" -> 2 [] c = "3" -> 3 [] c = "4" -> 4
      [] c = "5" -> 5 [] c = "6" -> 6 [] c = "7" -> 7 [] c = "8" -> 8 [] c = "9" -> 9
      [] OTHER -> -1

\* float(s) for the strings "d" and "d.d", in tenths; any other string of
\* the model is no number and float raises ValueError.
Float(s) ==
    IF Len(s) = 1 /\ DigitValue(s[1]) >= 0
    THEN [raised |-> "", tenths |-> 10 * DigitValue(s[1])]
    ELSE IF /\ Len(s) = 3
            /\ s[2] = "."
            /\ DigitValue(s[1]) >= 0
            /\ DigitValue(s[3]) >= 0
    THEN [raised |-> "", tenths |-> 10 * DigitValue(s[1]) + DigitValue(s[3])]
    ELSE [raised |-> "ValueError", tenths |-> 0]

\* bool(a.certainty): None and the empty string are false
Truthy(attr) == attr.present /\ attr.value # <<>>

RECURSIVE Certainties(_, _)
\* [float(a.certainty) if a.certainty else 0 for a in alignments] from the
\* i-th alignment on, as the sum and the length of the list
Certainties(alignments, i) ==
    IF i > Len(alignments) THEN [raised |-> "", sum |-> 0, len |-> 0]
    ELSE LET c == alignments[i].certainty
             f == IF Truthy(c) THEN Float(c.value) ELSE [raised |-> "", tenths |-> 0]
             rest == Certainties(alignments, i + 1)
         IN  IF f.raised # "" THEN [raised |-> f.raised, sum |-> 0, len |-> 0]
             ELSE IF rest.raised # "" THEN rest
             ELSE [raised |-> "", sum |-> f.tenths + rest.sum, len |-> 1 + rest.len]

RECURSIVE SumOverLanguages(_, _)
\* The loop over alignment_trees.items(), for the languages still to visit
SumOverLanguages(trees, languages) ==
    IF languages = {} THEN [raised |-> "", sum |-> 0, len |-> 0]
    ELSE LET language == CHOOSE l \in languages : TRUE
             certainties == Certainties(trees[language], 1)
             rest == SumOverLanguages(trees, languages \ {language})
         IN  IF certainties.raised # "" THEN certainties
             ELSE IF rest.raised # "" THEN rest
             ELSE [raised |-> "", sum |-> certainties.sum + rest.sum,
                   len |-> certainties.len + rest.len]

\* EuroparlExtractor.average_alignment_certainty: the mean as the fraction
\* num / den of tenths, 0 / 1 for the integer 0
average_alignment_certainty(trees) ==
    LET total == SumOverLanguages(trees, DOMAIN trees)
    IN  IF total.raised # "" THEN [raised |-> total.raised, num |-> 0, den |-> 1]
        ELSE IF total.len > 0 THEN [raised |-> "", num |-> total.sum, den |-> total.len]
        ELSE [raised |-> "", num |-> 0, den |-> 1]

NoCall == [language_from |-> <<>>, language_to |-> <<>>, segment_number |-> <<>>]
NotResolved == [done |-> FALSE, from_lines |-> <<>>, to_lines |-> <<>>,
                alignment_str |-> <<>>]
NotAveraged == [done |-> FALSE, num |-> 0, den |-> 1]

IdleEuroparl ==
    /\ l_from = <<>>
    /\ l_to = <<>>
    /\ linkGrp = <<>>
    /\ alignment_trees = <<>>
    /\ raised = ""
    /\ call = NoCall
    /\ resolved = NotResolved
    /\ back = [segment_number |-> <<>>, result |-> NotResolved]
    /\ average = NotAveraged

(***************************************************************************)
(* src/corpora/europarl/extractor.py: parse_alignment_trees, fetch_results  *)
(* and sort_by_alignment_certainty over the files of a data folder.         *)
(* A path is a string; the files of a data folder are a function from the   *)
(* paths that exist to their contents.                                      *)
(***************************************************************************)

\* A <linkGrp fromDoc=... toDoc=...> element with its <link> children
LinkGrp(fromDoc, toDoc, links) == [fromDoc |-> fromDoc, toDoc |-> toDoc, links |-> links]

\* A file name: the data folder and the path below it (language/base name)
Filename(folder, path) == [folder |-> folder, path |-> path]

\* os.path.dirname(os.path.dirname(filename))
data_folder(filename) == filename.folder

\* os.path.basename(filename)
basename(filename) ==
    LET parts == Split(filename.path, <<"/">>) IN parts[Len(parts)]

RECURSIVE Join(_, _)
\* sep.join(strings)
Join(strings, sep) ==
    IF strings = <<>> THEN <<>>
    ELSE IF Len(strings) = 1 THEN strings[1]
    ELSE strings[1] \o sep \o Join(Tail(strings), sep)

\* os.path.join(data_folder, '-'.join(sl) + '.xml'), below the data folder
AlignmentFile(lf, language_to) ==
    Join(Sorted(lf, language_to), <<"-">>) \o <<".", "x", "m", "l">>

\* Mutant of LoadAlignmentXmls: the alignment files are parsed on every run.
LoadAlignmentXmls_every_run(xmls, files, lf, lt) ==
    LET found == { lt[i] : i \in { j \in 1..Len(lt) : AlignmentFile(lf, lt[j]) \in DOMAIN files } }
    IN  [language_to \in found |-> files[AlignmentFile(lf, language_to)]]

\* "Cache the alignment XMLs on the first run": when self.alignment_xmls is
\* empty, the alignment file of every target language that has one is parsed.
LoadAlignmentXmls(xmls, files, lf, lt) ==
    IF DOMAIN xmls # {} THEN xmls
    ELSE LET found == { lt[i] : i \in { j \in 1..Len(lt) :
                                         AlignmentFile(lf, lt[j]) \in DOMAIN files } }
         IN  [language_to \in found |-> files[AlignmentFile(lf, language_to)]]

\* '{}/{}.gz'.format(self.l_from, base_filename)
Doc(lf, base_filename) == lf \o <<"/">> \o base_filename \o <<".", "g", "z">>

\* alignment_tree.xpath('//linkGrp[@fromDoc="doc"]'), or with @toDoc
MatchingLinkGrps(alignment_tree, from_is_first, doc) ==
    LET Matching(g) == (IF from_is_first THEN g.fromDoc ELSE g.toDoc) = doc
    IN  SelectSeq(alignment_tree.linkGrps, Matching)

\* The outcome of the loop body of parse_alignment_trees for a language
\* without exactly one link group
NoLinkGrp == [raised |-> "", found |-> FALSE, alignments |-> <<>>, translation |-> <<>>]
Raises(exception) ==
    [raised |-> exception, found |-> FALSE, alignments |-> <<>>, translation |-> <<>>]

\* The body of the loop of parse_alignment_trees over self.l_to, for one
\* target language: the exception it raises, or whether one link group was
\* found, with the alignments built from it and the translation tree parsed.
ParseLanguage(xmls, files, lf, language_to, filename, include_translations) ==
    IF language_to \notin DOMAIN xmls THEN Raises("KeyError")
    ELSE
    LET sl == Sorted(lf, language_to)
        doc == Doc(lf, basename(filename))
        linkGrps == MatchingLinkGrps(xmls[language_to], sl[1] = lf, doc)
    IN  IF Len(linkGrps) # 1 THEN NoLinkGrp
        ELSE
        LET translation_link == IF sl[1] = lf THEN linkGrps[1].toDoc
                                ELSE linkGrps[1].fromDoc
            translation_file == SubSeq(translation_link, 1, Len(translation_link) - 3)
            parsed == ParseLinks(linkGrps[1].links)
        IN  IF include_translations /\ translation_file \notin DOMAIN files
            THEN Raises("IOError")
            ELSE IF parsed.raised # "" THEN Raises(parsed.raised)
            ELSE [raised |-> "", found |-> TRUE, alignments |-> parsed.alignments,
                  translation |-> IF include_translations THEN files[translation_file]
                                  ELSE <<>>]

\* The positions 1..n at which Test holds, in order
Positions(n, Test(_)) == SelectSeq([i \in 1..n |-> i], Test)

\* The position of the first outcome that raised, Len(outcomes) + 1 if none
FirstRaised(outcomes) ==
    IF \A i \in 1..Len(outcomes) : outcomes[i].raised = "" THEN Len(outcomes) + 1
    ELSE CHOOSE i \in 1..Len(outcomes) :
             /\ outcomes[i].raised # ""
             /\ \A j \in 1..(i - 1) : outcomes[j].raised = ""

\* The last position before stop at which language_to got its alignments
LastFound(lt, outcomes, stop, language_to) ==
    CHOOSE i \in 1..(stop - 1) :
        /\ lt[i] = language_to
        /\ outcomes[i].found
        /\ \A j \in (i + 1)..(stop - 1) : ~(lt[j] = language_to /\ outcomes[j].found)

\* What parse_alignment_trees has when its loop over self.l_to ends, normally
\* or at the first language that raises (position stop), outcomes being the
\* outcome of the loop body for each language; built is a ghost listing the
\* languages whose alignments list was built, in order.
ParsedTrees(cached, lt, outcomes, stop, include_translations) ==
    LET Found(i) == i < stop /\ outcomes[i].found
        found == Positions(Len(lt), Found)
        languages == { lt[i] : i \in { j \in 1..(stop - 1) : outcomes[j].found } }
    IN  [raised |-> IF stop > Len(lt) THEN "" ELSE outcomes[stop].raised,
         alignment_xmls |-> cached,
         alignment_trees |->
             [language_to \in languages |->
                 outcomes[LastFound(lt, outcomes, stop, language_to)].alignments],
         translation_trees |->
             IF include_translations
             THEN [language_to \in languages |->
                      outcomes[LastFound(lt, outcomes, stop, language_to)].translation]
             ELSE <<>>,
         built |-> [k \in 1..Len(found) |-> lt[found[k]]]]

\* The loop of parse_alignment_trees over self.l_to, given the outcome of
\* its body for each language
ParseLanguages(cached, lt, outcomes, include_translations) ==
    ParsedTrees(cached, lt, outcomes, FirstRaised(outcomes), include_translations)

\* parse_alignment_trees after "Cache the alignment XMLs on the first run"
ParseCached(cached, files, lf, lt, filename, include_translations) ==
    ParseLanguages(cached, lt,
                   [i \in 1..Len(lt) |->
                       ParseLanguage(cached, files, lf, lt[i], filename,
                                     include_translations)],
                   include_translations)

\* EuroparlExtractor.parse_alignment_trees(filename, include_translations),
\* files being the files of the data folder of filename
parse_alignment_trees(xmls, files, lf, lt, filename, include_translations) ==
    ParseCached(LoadAlignmentXmls(xmls, files, lf, lt), files, lf, lt, filename,
                include_translations)

\* etree.tostring of the <s> element with the given id
Tostring(id) == <<"<", "s", " ", "i", "d", "=">> \o id \o <<"/", ">">>

\* EuroparlExtractor.get_line: the sentence as a string, None when the tree
\* has no sentence of that id
get_line(translation_tree, segment_number) ==
    IF InList(segment_number, translation_tree.sentences)
    THEN Str(Tostring(segment_number))
    ELSE None

\* '<root>' + ... + '</root>'
Root(text) == <<"<", "r", "o", "o", "t", ">">> \o text \o <<"<", "/", "r", "o", "o", "t", ">">>

RECURSIVE Flatten(_)
\* The concatenation of a list of lists
Flatten(lists) ==
    IF lists = <<>> THEN <<>> ELSE Head(lists) \o Flatten(Tail(lists))

\* [self.get_line(translation_trees[language_to], line) for line in translated_lines]
TranslatedSentences(translation_tree, translated_lines) ==
    [j \in 1..Len(translated_lines) |-> get_line(translation_tree, translated_lines[j])]

\* The two columns fetch_results appends for a language with a translation
\* tree; '\n'.join raises TypeError when a translated line was not found.
AppendedColumns(alignment_type, translated_sentences) ==
    IF \E j \in 1..Len(translated_sentences) : ~translated_sentences[j].present
    THEN [raised |-> "TypeError", columns |-> <<>>]
    ELSE [raised |-> "",
          columns |-> <<alignment_type,
                        IF translated_sentences # <<>>
                        THEN Root(Join([j \in 1..Len(translated_sentences) |->
                                           translated_sentences[j].value], <<"\n">>))
                        ELSE <<>> >>]

\* The same, r being what get_translated_lines returned
ColumnsOf(r, translation_tree) ==
    AppendedColumns(r.alignment_str, TranslatedSentences(translation_tree, r.to_lines))

\* Mutant of TranslationColumns: nothing is appended for a language without
\* translation (pass instead of result.extend([''] * 2)).
TranslationColumns_no_padding(lf, language_to, s, trees, translations) ==
    IF language_to \in DOMAIN translations
    THEN IF language_to \notin DOMAIN trees
         THEN [raised |-> "KeyError", columns |-> <<>>]
         ELSE ColumnsOf(get_translated_lines(trees, lf, language_to, s),
                        translations[language_to])
    ELSE [raised |-> "", columns |-> <<>>]

\* The body of the loop of fetch_results over self.l_to for the sentence s
\* and one target language: the two columns appended to the row
TranslationColumns(lf, language_to, s, trees, translations) ==
    IF language_to \in DOMAIN translations
    THEN IF language_to \notin DOMAIN trees
         THEN [raised |-> "KeyError", columns |-> <<>>]
         ELSE ColumnsOf(get_translated_lines(trees, lf, language_to, s),
                        translations[language_to])
    ELSE [raised |-> "", columns |-> << <<>>, <<>> >>]

\* The row of a sentence from its six first fields and the columns of each
\* target language, or the first exception raised
RowOf(fields, columns) ==
    IF FirstRaised(columns) <= Len(columns)
    THEN [raised |-> columns[FirstRaised(columns)].raised, result |-> <<>>]
    ELSE [raised |-> "",
          result |-> fields \o Flatten([i \in 1..Len(columns) |-> columns[i].columns])]

\* The body of the loop of fetch_results over the sentences: the row of the
\* sentence s
ResultRow(lf, lt, filename, s, trees, translations) ==
    RowOf(<<basename(filename), s, <<>>, <<>>, <<>>, Root(Tostring(s))>>,
          [i \in 1..Len(lt) |-> TranslationColumns(lf, lt[i], s, trees, translations)])

\* The rows of the sentences, or the first exception raised
RowsOf(rows) ==
    IF FirstRaised(rows) <= Len(rows)
    THEN [raised |-> rows[FirstRaised(rows)].raised, results |-> <<>>]
    ELSE [raised |-> "", results |-> [k \in 1..Len(rows) |-> rows[k].result]]

\* The sentences self.sentence_ids does not leave out
KeptSentences(ids, s_trees) ==
    LET Kept(s) == ~(ids # <<>> /\ ~InList(s, ids))
    IN  SelectSeq(s_trees, Kept)

\* The rows of the sentences kept
RowsOfKept(lf, lt, filename, kept, trees, translations) ==
    RowsOf([k \in 1..Len(kept) |->
               ResultRow(lf, lt, filename, kept[k], trees, translations)])

\* EuroparlExtractor.fetch_results: the rows, one for each sentence that
\* self.sentence_ids does not leave out, or the first exception raised
fetch_results(lf, lt, ids, filename, s_trees, trees, translations) ==
    RowsOfKept(lf, lt, filename, KeptSentences(ids, s_trees), trees, translations)

\* a > b for two means given as fractions of tenths
Greater(a, b) == a.num * b.den > b.num * a.den

\* sorted(filenames.items(), key=lambda kv: kv[1], reverse=True), keys only:
\* the orders of the files a stable sort can give, the order in which the
\* dict yields its items not being fixed
SortedByValue(filenames) ==
    LET n == Cardinality(DOMAIN filenames)
    IN  { order \in [1..n -> DOMAIN filenames] :
            /\ \A i, j \in 1..n : i # j => order[i] # order[j]
            /\ \A i, j \in 1..n : i < j => ~Greater(filenames[order[j]], filenames[order[i]]) }

NoRun == [op |-> "none", count |-> 0, files |-> <<>>, xmls_before |-> <<>>,
          built |-> <<>>, trees |-> <<>>]

IdleRun ==
    /\ corpus = <<>>
    /\ sentence_ids = <<>>
    /\ alignment_xmls = <<>>
    /\ translation_trees = <<>>
    /\ results = <<>>
    /\ sorted_files = <<>>
    /\ builds = <<>>
    /\ run = NoRun

(***************************************************************************)
(* src/extractor/models.py                                                  *)
(***************************************************************************)

\* The two PresentPerfect objects of a run (names as in test_extend).
Objects == {"ppp", "pp_extend"}

\* (word, lemma) pairs the callers may pass.
Vocabulary == {<<"has", "have">>, <<"always", "always">>, <<"loved", "love">>}

\* class Word
Word(word, lemma, is_verb) == [word |-> word, lemma |-> lemma, is_verb |-> is_verb]

\* Mutant of add_word: inserts the word at the front of the list.
add_word_prepends(ws, word, lemma, is_verb) == <<Word(word, lemma, is_verb)>> \o ws

\* PresentPerfect.add_word: self.words.append(Word(word, lemma, is_verb))
add_word(ws, word, lemma, is_verb) == Append(ws, Word(word, lemma, is_verb))

\* PresentPerfect.__init__: self.words = []; self.add_word(aux_verb, aux_lemma, True)
init_words(aux_verb, aux_lemma) == add_word(<<>>, aux_verb, aux_lemma, TRUE)

RECURSIVE extend_from(_, _, _)
\* The loop of extend from index i (Python index i - 1) on.
extend_from(ws, other, i) ==
    IF i > Len(other) THEN ws
    ELSE IF i - 1 = 0 THEN extend_from(ws, other, i + 1)
    ELSE extend_from(add_word(ws, other[i].word, other[i].lemma, other[i].is_verb),
                     other, i + 1)

RECURSIVE extend_keeps_first_from(_, _, _)
extend_keeps_first_from(ws, other, i) ==
    IF i > Len(other) THEN ws
    ELSE extend_keeps_first_from(
             add_word(ws, other[i].word, other[i].lemma, other[i].is_verb), other, i + 1)

\* Mutant of extend: does not skip the first word of the other construction.
extend_keeps_first(ws, other) == extend_keeps_first_from(ws, other, 1)

\* PresentPerfect.extend: add every word of present_perfect but the first.
extend(ws, other) == extend_from(ws, other, 1)

\* PresentPerfect.perfect_lemma: self.words[-1].lemma
perfect_lemma(ws) == ws[Len(ws)].lemma

IsVerb(w) == w.is_verb
IsNoVerb(w) == ~w.is_verb

\* [w.word for w in ws]
WordsOf(ws) == [i \in 1..Len(ws) |-> ws[i].word]

\* Mutant of verbs: the is_verb flag is not looked at.
verbs_unfiltered(ws) == WordsOf(ws)

\* PresentPerfect.verbs: [w.word for w in self.words if w.is_verb]
verbs(ws) == WordsOf(SelectSeq(ws, IsVerb))

\* PresentPerfect.verbs_to_string: ' '.join(self.verbs()); the string is the
\* sequence of its words and the spaces between them
verbs_to_string(ws) == Join([i \in 1..Len(verbs(ws)) |-> <<verbs(ws)[i]>>], <<" ">>)

\* PresentPerfect.words_between: len([w.word for w in self.words if not w.is_verb])
words_between(ws) == Len(WordsOf(SelectSeq(ws, IsNoVerb)))

NoAux == <<>>
IdleLast == [op |-> "none", self |-> "ppp", other |-> "ppp",
             before |-> [o \in Objects |-> <<>>]]

IdleModels ==
    /\ words = [o \in Objects |-> <<>>]
    /\ aux_of = [o \in Objects |-> NoAux]
    /\ last = IdleLast

InitModels ==
    /\ IdleModels
    /\ IdleLines
    /\ IdleFrench
    /\ IdleDetect
    /\ IdleEuroparl
    /\ IdleRun

\* pp = PresentPerfect(aux_verb, aux_lemma)
Create(o, v) ==
    /\ aux_of[o] = NoAux
    /\ words' = [words EXCEPT ![o] = init_words(v[1], v[2])]
    /\ aux_of' = [aux_of EXCEPT ![o] = v]
    /\ last' = [op |-> "init", self |-> o, other |-> o, before |-> words]
    /\ UNCHANGED <<detectVars, europarlVars, runVars, linesVars, frenchVars>>

\* pp.add_word(word, lemma, is_verb)
AddWord(o, v, is_verb) ==
    /\ aux_of[o] # NoAux
    /\ Len(words[o]) < MaxWords
    /\ words' = [words EXCEPT ![o] = add_word(words[o], v[1], v[2], is_verb)]
    /\ last' = [op |-> "add_word", self |-> o, other |-> o, before |-> words]
    /\ UNCHANGED <<aux_of, detectVars, europarlVars, runVars, linesVars, frenchVars>>

\* a.extend(b), for two distinct objects
Extend(a, b) ==
    /\ a # b
    /\ aux_of[a] # NoAux
    /\ aux_of[b] # NoAux
    /\ Len(words[a]) + Len(words[b]) - 1 <= MaxWords
    /\ words' = [words EXCEPT ![a] = extend(words[a], words[b])]
    /\ last' = [op |-> "extend", self |-> a, other |-> b, before |-> words]
    /\ UNCHANGED <<aux_of, detectVars, europarlVars, runVars, linesVars, frenchVars>>

NextModels ==
    \/ \E o \in Objects, v \in Vocabulary : Create(o, v)
    \/ \E o \in Objects, v \in Vocabulary, is_verb \in BOOLEAN : AddWord(o, v, is_verb)
    \/ \E a \in Objects, b \in Objects : Extend(a, b)

SpecModels == InitModels /\ [][NextModels]_vars

(***************************************************************************)
(* Claims about the construction model                                      *)
(***************************************************************************)
ExtendDone == last.op = "extend"
A_before == last.before[last.self]
B_before == last.before[last.other]
A_after == words[last.self]
B_after == words[last.other]

\* Number of elements whose is-verb flag is false, counted by position.
NonVerbCount(ws) == Cardinality({i \in 1..Len(ws) : ~ws[i].is_verb})

\* The parts of C4 that do not concern the perfect lemma.
ExtendAppendsTail ==
    /\ A_after = A_before \o Tail(B_before)
    /\ verbs(A_after) = verbs(A_before) \o Tail(verbs(B_before))
    /\ words_between(A_after) = NonVerbCount(A_after)
    /\ B_after = B_before

\* C4 (as stated): after A.extend(B), A holds its former words followed by
\* B's words without the first, in order and with their is-verb flags, so
\* construction() is the old one followed by B.construction()[1:], the
\* perfect lemma of A is the lemma of B's last word, words_between() counts
\* the is-verb=false elements, and B is unchanged.
C4_ExtendOriginal ==
    ExtendDone =>
        /\ ExtendAppendsTail
        /\ perfect_lemma(A_after) = B_before[Len(B_before)].lemma

\* C4 (amended): as above, but the perfect lemma of A becomes the lemma of
\* B's last word only when B has more than one word; a one-word B appends
\* nothing and leaves A's perfect lemma as it was.
C4_ExtendAmended ==
    ExtendDone =>
        /\ ExtendAppendsTail
        /\ IF Len(B_before) > 1
           THEN perfect_lemma(A_after) = B_before[Len(B_before)].lemma
           ELSE perfect_lemma(A_after) = perfect_lemma(A_before)

\* A two-word construction was extended with a two-word one holding a non-verb.
C4_Witness ==
    /\ ExtendDone
    /\ Len(A_before) = 2
    /\ Len(B_before) = 2
    /\ ~B_before[2].is_verb
    /\ Len(A_after) = 3

\* C5: every created construction has a non-empty word sequence whose first
\* element is the auxiliary it was created with, flagged is-verb=true,
\* whatever add_word and extend operations followed.
C5_FirstIsAux ==
    \A o \in Objects :
        aux_of[o] # NoAux =>
            /\ Len(words[o]) >= 1
            /\ words[o][1] = Word(aux_of[o][1], aux_of[o][2], TRUE)

\* A construction that went through creation, add_word and extend.
C5_Witness ==
    /\ ExtendDone
    /\ Len(A_after) >= 3
    /\ \E i \in 1..Len(A_before) : ~A_before[i].is_verb
    /\ \E i \in 1..Len(B_before) : ~B_before[i].is_verb

\* The positions of the is-verb=true elements of ws
VerbPositions(ws) == { i \in 1..Len(ws) : ws[i].is_verb }

\* forms lists the surface forms of exactly the is-verb=true elements of ws,
\* in their original order.
IsVerbForms(forms, ws) ==
    /\ Len(forms) = Cardinality(VerbPositions(ws))
    /\ \E f \in [1..Len(forms) -> 1..Len(ws)] :
           /\ \A i, j \in 1..Len(forms) : i < j => f[i] < f[j]
           /\ \A i \in 1..Len(forms) : f[i] \in VerbPositions(ws) /\ forms[i] = ws[f[i]].word

\* text is the forms joined by single spaces.
IsJoinedBySpaces(text, forms) ==
    /\ Len(text) = IF forms = <<>> THEN 0 ELSE 2 * Len(forms) - 1
    /\ \A i \in 1..Len(forms) : text[2 * i - 1] = forms[i]
    /\ \A i \in 1..(Len(forms) - 1) : text[2 * i] = " "

HasAlwaysLoved ==
    <<Word("has", "have", TRUE), Word("always", "always", FALSE),
      Word("loved", "love", TRUE)>>

\* C12: for every construction, verbs() (construction()) lists the surface
\* forms of exactly the is-verb=true elements in their original order,
\* verbs_to_string() is those forms joined by single spaces, words_between()
\* is the number of is-verb=false elements and perfect_lemma() is the lemma
\* of the last element; for [has(verb), always(non-verb), loved(verb)] these
\* are ['has', 'loved'], "has loved", 1 and 'love'.
C12_Accessors ==
    \A o \in Objects :
        aux_of[o] # NoAux =>
            /\ IsVerbForms(verbs(words[o]), words[o])
            /\ IsJoinedBySpaces(verbs_to_string(words[o]), verbs(words[o]))
            /\ words_between(words[o]) = Len(words[o]) - Cardinality(VerbPositions(words[o]))
            /\ \E i \in 1..Len(words[o]) :
                   /\ i = Len(words[o])
                   /\ perfect_lemma(words[o]) = words[o][i].lemma
            /\ words[o] = HasAlwaysLoved =>
                   /\ verbs(words[o]) = <<"has", "loved">>
                   /\ verbs_to_string(words[o]) = <<"has", " ", "loved">>
                   /\ words_between(words[o]) = 1
                   /\ perfect_lemma(words[o]) = "love"

\* The construction has(verb) always(non-verb) loved(verb) was built.
C12_Witness ==
    /\ aux_of["ppp"] # NoAux
    /\ words["ppp"] = HasAlwaysLoved

(***************************************************************************)
(* Detection: process_file checks the elements the xpath selects            *)
(***************************************************************************)

InitDetect ==
    /\ IdleModels
    /\ IdleLines
    /\ IdleFrench
    /\ IdleEuroparl
    /\ IdleRun
    /\ config \in Configs
    /\ \E e \in Auxiliaries, sibs \in SeqsUpTo(SiblingWords, MaxSiblings) :
           tree = <<e>> \o sibs
    /\ detected = NotChecked

\* pp = self.check_present_perfect(e)
CheckElement ==
    /\ ~detected.done
    /\ LET r == check_present_perfect(config, tree, 1, TRUE)
       IN  detected' = [done |-> TRUE, found |-> r.found, pp |-> r.pp,
                        nested |-> r.nested]
    /\ UNCHANGED <<tree, config, modelsVars, europarlVars, runVars, linesVars, frenchVars>>

NextDetect == CheckElement

SpecDetect == InitDetect /\ [][NextDetect]_vars

\* The positions of the siblings of the checked element
SiblingPositions == 2..Len(tree)

\* Sibling k is a punctuation token or its tag starts with a stop tag.
IsBoundary(k) ==
    \/ IsSubstring(tree[k].text, Punctuation)
    \/ LET stops == Split(config.stop_tags, <<",">>)
       IN  \E i \in 1..Len(stops) : StartsWith(tree[k].ana, stops[i])

HasPerfectTag(k) == tree[k].ana = config.perfect_tag

\* C2 (as stated): if sibling k is a punctuation token or carries a tag that
\* starts with a stop tag, no element of the returned construction comes
\* from a sibling after k.
C2_NoCrossingOriginal ==
    (detected.done /\ detected.found) =>
        \A k \in SiblingPositions :
            IsBoundary(k) =>
                \A j \in 1..Len(detected.pp) : detected.pp[j].origin <= k

\* C2 (amended): the same for every punctuation or stop-tagged sibling k
\* that does not carry the construction (perfect) tag; a sibling with the
\* perfect tag is taken as the participle before the stop test is made.
C2_NoCrossingAmended ==
    (detected.done /\ detected.found) =>
        \A k \in SiblingPositions :
            (IsBoundary(k) /\ ~HasPerfectTag(k)) =>
                \A j \in 1..Len(detected.pp) : detected.pp[j].origin <= k

\* A continuous construction was returned and a stop-tagged sibling follows it.
C2_Witness ==
    /\ detected.done
    /\ detected.found
    /\ Len(detected.pp) = 3
    /\ Len(tree) = 4
    /\ IsBoundary(4)
    /\ ~HasPerfectTag(4)
    /\ ~IsSubstring(tree[4].text, Punctuation)

\* The auxiliary lemma of the checked element has a lexical-binding entry.
HasBindingEntry == config.lexical_bound # "" /\ tree[1].lemma = config.lexical_bound

\* k is the first sibling carrying the construction (perfect) tag.
IsFirstPerfect(k) ==
    /\ k \in SiblingPositions
    /\ HasPerfectTag(k)
    /\ \A j \in 2..(k - 1) : ~HasPerfectTag(j)

\* The walk gets as far as sibling k: nothing before it stops the walk.
WalkReaches(k) == \A j \in 2..(k - 1) : ~IsBoundary(j)

Allowed(k) == InList(tree[k].lemma, config.aux_be_list)

\* Without a binding entry the participle lemma plays no part.
UnboundUnrestricted ==
    \A k \in SiblingPositions :
        (~HasBindingEntry /\ IsFirstPerfect(k) /\ WalkReaches(k)) => detected.found

\* C3 (as stated): with a binding entry for the auxiliary lemma, detection
\* is not-found if the lemma of the first construction-tagged sibling is not
\* in the allowed list and returns a construction if it is; without an
\* entry the participle lemma is not restricted.
C3_LexicalBindingOriginal ==
    detected.done =>
        /\ \A k \in SiblingPositions :
               (HasBindingEntry /\ IsFirstPerfect(k)) =>
                   (detected.found <=> Allowed(k))
        /\ UnboundUnrestricted

\* C3 (amended): with a binding entry, when the walk reaches the first
\* construction-tagged sibling (no punctuation or stop-tagged sibling comes
\* before it), detection returns a construction if that sibling's lemma is
\* in the allowed list and not-found if it is not; when the walk is stopped
\* earlier the result is not-found whatever the lemma; without an entry the
\* participle lemma is not restricted.
C3_LexicalBindingAmended ==
    detected.done =>
        /\ \A k \in SiblingPositions :
               (HasBindingEntry /\ IsFirstPerfect(k)) =>
                   (detected.found <=> (Allowed(k) /\ WalkReaches(k)))
        /\ UnboundUnrestricted

\* A bound auxiliary met an allowed participle after an intervening word.
C3_Witness ==
    /\ detected.done
    /\ detected.found
    /\ HasBindingEntry
    /\ Len(tree) >= 3
    /\ IsFirstPerfect(3)
    /\ Allowed(3)

\* The walk meets a construction-tagged sibling: no punctuation or
\* stop-tagged sibling comes before the first one.
WalkMeetsPerfect == \E k \in SiblingPositions : IsFirstPerfect(k) /\ WalkReaches(k)

\* C13: detection returns not-found, and no partly built construction,
\* whenever the walk ends without meeting a construction-tagged sibling: the
\* sibling list is empty, the siblings are exhausted, or a punctuation or
\* stop-tagged sibling is met first.
C13_NotFound ==
    (detected.done /\ ~WalkMeetsPerfect) =>
        /\ ~detected.found
        /\ detected.pp = <<>>

\* An intervening word was collected, then a boundary stopped the walk
\* before a participle.
C13_Witness ==
    /\ detected.done
    /\ ~detected.found
    /\ Len(tree) = 4
    /\ ~IsBoundary(2)
    /\ ~HasPerfectTag(2)
    /\ IsBoundary(3)
    /\ ~HasPerfectTag(3)
    /\ HasPerfectTag(4)

\* A detection started at sibling k (as the auxiliary) finds the participle
\* at sibling m: m is the first construction-tagged sibling after k, no
\* boundary comes before it, and it is allowed if the lemma of sibling k
\* has a binding entry.
NestedAt(k, m) ==
    /\ m \in (k + 1)..Len(tree)
    /\ HasPerfectTag(m)
    /\ \A j \in (k + 1)..(m - 1) : ~HasPerfectTag(j) /\ ~IsBoundary(j)
    /\ (config.lexical_bound # "" /\ tree[k].lemma = config.lexical_bound)
           => Allowed(m)

NestedFound(k) == \E m \in SiblingPositions : NestedAt(k, m)

\* The construction completed by sibling k is extended by a continuous one.
Extended(k) == config.ppc /\ tree[k].lemma = config.ppc_lemma /\ NestedFound(k)

\* The trigger, the siblings before sibling k as non-verbs, and sibling k
Unextended(k) ==
    [j \in 1..k |-> [text |-> tree[j].text, is_verb |-> (j = 1 \/ j = k), origin |-> j]]

\* C14: a successful detection without continuous extension returns exactly
\* the trigger (is-verb=true), every sibling before the completing one in
\* order (is-verb=false) and the completing construction-tagged sibling
\* (is-verb=true); a trigger whose first sibling carries the construction
\* tag gives two tokens and no intervening word.
C14_Unextended ==
    (detected.done /\ detected.found) =>
        \A k \in SiblingPositions :
            (IsFirstPerfect(k) /\ ~Extended(k)) =>
                /\ detected.pp = Unextended(k)
                /\ k = 2 =>
                       /\ Len(detected.pp) = 2
                       /\ \A j \in 1..2 : detected.pp[j].is_verb

\* "has always been ," with continuous detection enabled: the nested
\* detection finds nothing and three parts are returned.
C14_Witness ==
    /\ detected.done
    /\ detected.found
    /\ Len(tree) = 4
    /\ IsFirstPerfect(3)
    /\ config.ppc
    /\ tree[3].lemma = config.ppc_lemma
    /\ ~Extended(3)
    /\ Len(detected.pp) = 3
    /\ ~detected.pp[2].is_verb

\* Continuous detection is tried at the completing sibling k.
ContinuousTried(k) == IsFirstPerfect(k) /\ config.ppc /\ tree[k].lemma = config.ppc_lemma

\* The trigger and the siblings up to m, siblings k and m being the verbs
ExtendedTo(k, m) ==
    [j \in 1..m |-> [text |-> tree[j].text, is_verb |-> (j \in {1, k, m}), origin |-> j]]

\* C15: when continuous detection is enabled and the lemma of the completing
\* sibling k is the continuous lemma, detection is run again with sibling k
\* as trigger over the siblings after k; if it succeeds the construction is
\* extended with the nested one without its first element, so sibling k
\* appears once; if it finds nothing the construction is returned unextended.
C15_Continuous ==
    (detected.done /\ detected.found) =>
        \A k \in SiblingPositions :
            ContinuousTried(k) =>
                /\ \A m \in SiblingPositions :
                       NestedAt(k, m) =>
                           /\ detected.pp = ExtendedTo(k, m)
                           /\ Cardinality({ j \in 1..Len(detected.pp) :
                                              detected.pp[j].origin = k }) = 1
                /\ ~NestedFound(k) => detected.pp = Unextended(k)

\* "has been always loved/gone": the nested detection collects a non-verb
\* and the participle.
C15_Witness ==
    /\ detected.done
    /\ detected.found
    /\ ContinuousTried(2)
    /\ Len(tree) = 4
    /\ NestedAt(2, 4)
    /\ Len(detected.pp) = 4
    /\ ~detected.pp[3].is_verb

\* Detection with the guarantee that process_file runs each check to its end
SpecDetectFair == SpecDetect /\ WF_vars(CheckElement)

\* The siblings that carry the construction tag and the continuous lemma
ContinuousSiblings ==
    { k \in SiblingPositions : HasPerfectTag(k) /\ tree[k].lemma = config.ppc_lemma }

\* One top-level detection makes at most one nested call, and makes it only
\* for a completing sibling with the continuous lemma.
OneNestedCall ==
    detected.done =>
        /\ detected.nested <= 1
        /\ detected.nested = 1 <=>
               (detected.found /\ \E k \in SiblingPositions : ContinuousTried(k))
        /\ Len(detected.pp) <= Len(tree)

\* C16: detection always terminates and its recursion depth is bounded: the
\* nested call runs with continuous detection disabled, so a top-level
\* detection makes at most one nested call however many consecutive
\* siblings carry the construction tag and the continuous lemma.
C16_BoundedRecursion == []OneNestedCall /\ <>detected.done

\* Three consecutive siblings carry the construction tag and the
\* continuous lemma; one nested call was made and three parts returned.
C16_Witness ==
    /\ detected.done
    /\ detected.found
    /\ Len(tree) = 4
    /\ ContinuousSiblings = {2, 3, 4}
    /\ config.ppc
    /\ detected.nested = 1
    /\ Len(detected.pp) = 3

(***************************************************************************)
(* Resolution: get_translated_lines over the alignments of one link group   *)
(***************************************************************************)
EN == <<"e", "n">>
NL == <<"n", "l">>
FR == <<"f", "r">>

\* (language_from, language_to) of the extractors run.py creates
LanguagePairs == { <<EN, FR>>, <<EN, NL>>, <<NL, EN>>, <<NL, FR>>, <<FR, EN>>, <<FR, NL>> }

\* The two halves of an xtargets attribute tried: "1", "2", "2 3", "1 2"
\* and the empty half of an unaligned sentence.
Sides == { <<"1">>, <<"2">>, <<"2", " ", "3">>, <<"1", " ", "2">>, <<>> }

\* <link xtargets="a;b"/> for all halves a and b, without certainty
ResolveLinks == { Link(Str(a \o <<";">> \o b), None) : a \in Sides, b \in Sides }

\* The segment numbers asked for (the id attributes of sentences): "1", "2",
\* "3" and "99"
SegmentNumbers == { <<"1">>, <<"2">>, <<"3">>, <<"9", "9">> }

InitResolve ==
    /\ IdleModels
    /\ IdleLines
    /\ IdleFrench
    /\ IdleDetect
    /\ IdleRun
    /\ \E pair \in LanguagePairs :
           /\ l_from = pair[1]
           /\ l_to = <<pair[2]>>
           /\ \E links \in SeqsUpTo(ResolveLinks, MaxLinks) :
                  /\ linkGrp = links
                  /\ alignment_trees = (pair[2] :> ParseLinks(links).alignments)
    /\ raised = ""
    /\ call = NoCall
    /\ resolved = NotResolved
    /\ back = [segment_number |-> <<>>, result |-> NotResolved]
    /\ average = NotAveraged

\* self.get_translated_lines(alignment_trees, self.l_from, language_to, s.get('id'))
GetTranslatedLines(segment_number) ==
    /\ ~resolved.done
    /\ call' = [language_from |-> l_from, language_to |-> l_to[1],
                segment_number |-> segment_number]
    /\ LET r == get_translated_lines(alignment_trees, l_from, l_to[1], segment_number)
       IN  resolved' = [done |-> TRUE, from_lines |-> r.from_lines,
                        to_lines |-> r.to_lines, alignment_str |-> r.alignment_str]
    /\ UNCHANGED <<modelsVars, detectVars, runVars, linesVars, frenchVars, l_from, l_to,
                   linkGrp, alignment_trees,
                   raised, back, average>>

\* The same call by the extractor of the opposite direction, which reads the
\* same alignment file and link group, for a line t the first call returned.
ResolveBack(j) ==
    /\ resolved.done
    /\ ~back.result.done
    /\ j \in 1..Len(resolved.to_lines)
    /\ LET t == resolved.to_lines[j]
           trees == (call.language_from :> alignment_trees[call.language_to])
           r == get_translated_lines(trees, call.language_to, call.language_from, t)
       IN  back' = [segment_number |-> t,
                    result |-> [done |-> TRUE, from_lines |-> r.from_lines,
                                to_lines |-> r.to_lines,
                                alignment_str |-> r.alignment_str]]
    /\ UNCHANGED <<modelsVars, detectVars, runVars, linesVars, frenchVars, l_from, l_to,
                   linkGrp, alignment_trees,
                   raised, call, resolved, average>>

NextResolve ==
    \/ \E segment_number \in SegmentNumbers : GetTranslatedLines(segment_number)
    \/ \E j \in 1..Len(resolved.to_lines) : ResolveBack(j)

SpecResolve == InitResolve /\ [][NextResolve]_vars

\* The alignment index the call was made on
Index == alignment_trees[call.language_to]

\* The "from" and "to" group of a link for the call's language order.
FromGroup(a) ==
    IF StrLess(call.language_from, call.language_to) THEN a.sources ELSE a.targets
ToGroup(a) ==
    IF StrLess(call.language_from, call.language_to) THEN a.targets ELSE a.sources

\* The links whose "from" group contains the segment id, and the first of them
Matches == { i \in 1..Len(Index) : InList(call.segment_number, FromGroup(Index[i])) }
FirstMatch == CHOOSE i \in Matches : \A j \in Matches : i <= j

OnlyEmptyIds(group) == \A i \in 1..Len(group) : group[i] = <<>>

C7_NoMatchEmpty ==
    (resolved.done /\ Matches = {}) =>
        /\ resolved.from_lines = <<>>
        /\ resolved.to_lines = <<>>
        /\ resolved.alignment_str = <<>>

\* Segment "99" was looked up in an index of two links, neither holding it.
C7_Witness ==
    /\ resolved.done
    /\ call.segment_number = <<"9", "9">>
    /\ Len(Index) = 2
    /\ Matches = {}

\* The decimal numeral of a number below ten
Numeral(n) ==
    CASE n = 0 -> "0" [] n = 1 -> "1" [] n = 2 -> "2" [] n = 3 -> "3" [] n = 4 -> "4"
      [] n = 5 -> "5" [] n = 6 -> "6" [] n = 7 -> "7" [] n = 8 -> "8" [] n = 9 -> "9"

\* C8: when a translation is found (the returned to group is non-empty) the
\* descriptor is "<n> => <m>", n and m being the numbers of ids in the
\* returned from and to groups; otherwise it is the empty string.
C8_Descriptor ==
    resolved.done =>
        IF resolved.to_lines # <<>>
        THEN resolved.alignment_str =
                 <<Numeral(Len(resolved.from_lines)), " ", "=", ">", " ",
                   Numeral(Len(resolved.to_lines))>>
        ELSE resolved.alignment_str = <<>>

\* From ["1"] to ["2", "3"] the descriptor is "1 => 2".
C8_Witness ==
    /\ resolved.done
    /\ resolved.from_lines = << <<"1">> >>
    /\ resolved.to_lines = << <<"2">>, <<"3">> >>
    /\ resolved.alignment_str = <<"1", " ", "=", ">", " ", "2">>

\* A result of get_translated_lines has a descriptor exactly when its to
\* group is non-empty, and its to group is not made of empty ids only
WellFormedResult(r) ==
    /\ r.alignment_str # <<>> <=> r.to_lines # <<>>
    /\ r.to_lines # <<>> => ~OnlyEmptyIds(r.to_lines)

\* C20: in every result of get_translated_lines the descriptor is non-empty
\* if and only if the returned to group is non-empty, and a returned to
\* group never consists of empty-string ids only: a matched link whose to
\* side holds only empty strings gives the to group [] and the descriptor
\* "", the from group of the link still being returned.
C20_EmptyToSide ==
    /\ resolved.done => WellFormedResult(resolved)
    /\ back.result.done => WellFormedResult(back.result)
    /\ (resolved.done /\ Matches # {} /\ OnlyEmptyIds(ToGroup(Index[FirstMatch]))) =>
           /\ resolved.to_lines = <<>>
           /\ resolved.alignment_str = <<>>
           /\ resolved.from_lines = FromGroup(Index[FirstMatch])

\* Sentence "2" of a link "2;" (no translation) was looked up: the from
\* group ["2"] is returned with no to group and no descriptor.
C20_Witness ==
    /\ resolved.done
    /\ Matches # {}
    /\ ToGroup(Index[FirstMatch]) = << <<>> >>
    /\ resolved.from_lines = << <<"2">> >>
    /\ resolved.to_lines = <<>>
    /\ resolved.alignment_str = <<>>

\* C1 (as stated): every t of the returned to group resolves, in the
\* opposite direction over the same index, to a to group containing s.
C1_RoundTripOriginal ==
    back.result.done => InList(call.segment_number, back.result.to_lines)

\* The links whose to group (for the first call) contains t
LinksHolding(t) == { i \in 1..Len(Index) : InList(t, ToGroup(Index[i])) }

\* C1 (amended): the round trip holds when t occurs in the B-side group of
\* one link only and s is not the empty string.
C1_RoundTripAmended ==
    ( /\ back.result.done
      /\ Cardinality(LinksHolding(back.segment_number)) <= 1
      /\ call.segment_number # <<>> ) =>
        InList(call.segment_number, back.result.to_lines)

\* A 2-to-2 link behind another link was resolved there and back.
C1_Witness ==
    /\ back.result.done
    /\ Cardinality(LinksHolding(back.segment_number)) <= 1
    /\ call.segment_number # <<>>
    /\ Matches = {2}
    /\ Len(resolved.from_lines) = 2
    /\ Len(resolved.to_lines) = 2
    /\ back.segment_number = resolved.to_lines[2]

(***************************************************************************)
(* Certainty: average_alignment_certainty over the alignments of a file     *)
(***************************************************************************)

\* The certainty attributes tried: absent, "0.8", "0.4" and "x"
CertaintyValues == { None, Str(<<"0", ".", "8">>), Str(<<"0", ".", "4">>), Str(<<"x">>) }

\* <link xtargets="1;1" certainty=.../>
CertaintyLinks == { Link(Str(<<"1", ";", "1">>), c) : c \in CertaintyValues }

\* The alignment lists a link group of at most MaxLinks links gives
AlignmentLists == { ParseLinks(links).alignments : links \in SeqsUpTo(CertaintyLinks, MaxLinks) }

\* The extractor PerfectExtractor('en', ['fr', 'nl']); alignment_trees holds
\* a list for each target language that has exactly one link group.
InitCertainty ==
    /\ IdleModels
    /\ IdleLines
    /\ IdleFrench
    /\ IdleDetect
    /\ IdleRun
    /\ l_from = EN
    /\ l_to = <<FR, NL>>
    /\ linkGrp = <<>>
    /\ \E languages \in SUBSET {FR, NL} :
           alignment_trees \in [languages -> AlignmentLists]
    /\ raised = ""
    /\ call = NoCall
    /\ resolved = NotResolved
    /\ back = [segment_number |-> <<>>, result |-> NotResolved]
    /\ average = NotAveraged

\* filenames[filename] = self.average_alignment_certainty(alignment_trees)
AverageAlignmentCertainty ==
    /\ ~average.done
    /\ LET r == average_alignment_certainty(alignment_trees)
       IN  /\ average' = [done |-> TRUE, num |-> r.num, den |-> r.den]
           /\ raised' = r.raised
    /\ UNCHANGED <<modelsVars, detectVars, runVars, linesVars, frenchVars, l_from, l_to,
                   linkGrp, alignment_trees,
                   call, resolved, back>>

NextCertainty == AverageAlignmentCertainty

SpecCertainty == InitCertainty /\ [][NextCertainty]_vars

\* The links with a known certainty, as (language, position) pairs
KnownLinks ==
    { p \in UNION { {<<l, i>> : i \in 1..Len(alignment_trees[l])} :
                    l \in DOMAIN alignment_trees } :
        Truthy(alignment_trees[p[1]][p[2]].certainty) }

RECURSIVE KnownSum(_)
\* The sum, in tenths, of the certainties of a set of links
KnownSum(links) ==
    IF links = {} THEN 0
    ELSE LET p == CHOOSE q \in links : TRUE
         IN  Float(alignment_trees[p[1]][p[2]].certainty.value).tenths
                 + KnownSum(links \ {p})

\* C9: the result is the mean of the known certainties only (links without
\* certainty count neither in the sum nor in the number of values), and 0
\* when no certainty is known.
C9_MeanOfKnown ==
    (average.done /\ raised = "") =>
        IF KnownLinks = {}
        THEN average.num = 0
        ELSE average.num * Cardinality(KnownLinks) = KnownSum(KnownLinks) * average.den

(***************************************************************************)
(* Building: the alignments of a link group                                 *)
(***************************************************************************)

\* The xtargets attributes tried: absent, "1;1", "2;2 3", "1;", ";1", ";"
\* and "1" (no semicolon)
XtargetsValues ==
    { None, Str(<<"1", ";", "1">>), Str(<<"2", ";", "2", " ", "3">>), Str(<<"1", ";">>),
      Str(<<";", "1">>), Str(<<";">>), Str(<<"1">>) }

BuildLinks ==
    { Link(x, c) : x \in XtargetsValues,
                   c \in { None, Str(<<"0", ".", "8">>), Str(<<"x">>) } }

InitBuild ==
    /\ IdleModels
    /\ IdleLines
    /\ IdleFrench
    /\ IdleDetect
    /\ IdleRun
    /\ l_from = EN
    /\ l_to = <<NL>>
    /\ linkGrp \in SeqsUpTo(BuildLinks, MaxLinks)
    /\ alignment_trees = <<>>
    /\ raised = ""
    /\ call = NoCall
    /\ resolved = NotResolved
    /\ back = [segment_number |-> <<>>, result |-> NotResolved]
    /\ average = NotAveraged

\* The alignments of the link group were built and stored.
Built == l_to[1] \in DOMAIN alignment_trees

\* parse_alignment_trees, for the one link group found for the file:
\* alignment_trees[language_to] = alignments, unless a link raises.
BuildAlignments ==
    /\ ~Built
    /\ raised = ""
    /\ LET r == ParseLinks(linkGrp)
       IN  IF r.raised = ""
           THEN /\ alignment_trees' = (l_to[1] :> r.alignments)
                /\ UNCHANGED raised
           ELSE /\ raised' = r.raised
                /\ UNCHANGED alignment_trees
    /\ UNCHANGED <<modelsVars, detectVars, runVars, linesVars, frenchVars, l_from, l_to,
                   linkGrp, call, resolved,
                   back, average>>

NextBuild == BuildAlignments

SpecBuild == InitBuild /\ [][NextBuild]_vars

BuildDone == Built \/ raised # ""

\* The two halves of an xtargets value around its first semicolon
HasSemicolon(link) == link.xtargets.present /\ InList(";", link.xtargets.value)
LeftEmpty(link) == HasSemicolon(link) /\ Head(link.xtargets.value) = ";"
RightEmpty(link) ==
    /\ HasSemicolon(link)
    /\ LET x == link.xtargets.value
           k == CHOOSE i \in 1..Len(x) : x[i] = ";" /\ \A j \in 1..(i - 1) : x[j] # ";"
       IN  k = Len(x) \/ x[k + 1] = ";"
HasEmptyGroup(link) == LeftEmpty(link) \/ RightEmpty(link)

Extractors ==
    { [l_from |-> EN, l_to |-> <<FR, NL>>],
      [l_from |-> NL, l_to |-> <<EN, FR>>],
      [l_from |-> FR, l_to |-> <<EN, NL>>] }

\* The data folders and the base names of their documents
Folders == {"data1", "data2"}
EpA == <<"a", ".", "x", "m", "l">>
EpB == <<"b", ".", "x", "m", "l">>
BasesOf(folder) == IF folder = "data1" THEN {EpA, EpB} ELSE {EpA}

\* The documents language/base of a folder, each with the sentences 1, 2, 3
DocFiles(languages, bases) ==
    [path \in { l \o <<"/">> \o b : l \in languages, b \in bases } |->
        [sentences |-> << <<"1">>, <<"2">>, <<"3">> >>]]

\* <link xtargets="1;1" certainty="0.8"/><link xtargets="2;2 3"/>
Links1 ==
    << Link(Str(<<"1", ";", "1">>), Str(<<"0", ".", "8">>)),
       Link(Str(<<"2", ";", "2", " ", "3">>), None) >>

\* <link xtargets="1 2;1" certainty="0.5"/>
Links2 == << Link(Str(<<"1", " ", "2", ";", "1">>), Str(<<"0", ".", "5">>)) >>

\* <linkGrp fromDoc="x/base.gz" toDoc="y/base.gz">
GrpFor(x, y, base, links) ==
    LinkGrp(x \o <<"/">> \o base \o <<".", "g", "z">>,
            y \o <<"/">> \o base \o <<".", "g", "z">>, links)

\* The contents an alignment file x-y.xml of a folder may have: a link group
\* for b.xml only, one for each document, or two for a.xml.
AlignmentContents(x, y, folder) ==
    IF folder = "data1"
    THEN { [linkGrps |-> <<GrpFor(x, y, EpB, Links2)>>],
           [linkGrps |-> <<GrpFor(x, y, EpA, Links1), GrpFor(x, y, EpB, Links2)>>],
           [linkGrps |-> <<GrpFor(x, y, EpA, Links1), GrpFor(x, y, EpA, Links2)>>] }
    ELSE { [linkGrps |-> <<GrpFor(x, y, EpA, Links2)>>] }

\* x-y.xml, x and y being the two languages in lexicographic order
AlignmentFileNamed(a, b) ==
    IF StrLess(a, b) THEN a \o <<"-">> \o b \o <<".", "x", "m", "l">>
    ELSE b \o <<"-">> \o a \o <<".", "x", "m", "l">>

First(a, b) == IF StrLess(a, b) THEN a ELSE b
Second(a, b) == IF StrLess(a, b) THEN b ELSE a

\* The alignment files a folder may hold for the extractor e: for each
\* target language none, or one with some contents
AlignmentFilesOf(e, folder) ==
    LET languages == { e.l_to[i] : i \in 1..Len(e.l_to) }
    IN  UNION { { [name \in { AlignmentFileNamed(e.l_from, l) : l \in present } |->
                      contents[name]] :
                    contents \in
                        [ { AlignmentFileNamed(e.l_from, l) : l \in present } ->
                          UNION { AlignmentContents(First(e.l_from, l), Second(e.l_from, l),
                                                    folder) : l \in present } ] } :
                present \in SUBSET languages }

\* A file's contents must name the file's own languages
WellNamed(e, files) ==
    \A i \in 1..Len(e.l_to) :
        LET name == AlignmentFileNamed(e.l_from, e.l_to[i])
        IN  name \in DOMAIN files =>
                \A k \in 1..Len(files[name].linkGrps) :
                    StartsWith(files[name].linkGrps[k].fromDoc, First(e.l_from, e.l_to[i]))

RECURSIVE SetToSeq(_)
SetToSeq(S) ==
    IF S = {} THEN <<>>
    ELSE LET x == CHOOSE y \in S : TRUE IN <<x>> \o SetToSeq(S \ {x})

\* self.list_filenames(dir_name): the documents of the source language
list_filenames(folders, dir_name, lf) ==
    LET paths == { path \in DOMAIN folders[dir_name] : StartsWith(path, lf \o <<"/">>) }
    IN  SetToSeq({ Filename(dir_name, path) : path \in paths })

\* The source documents of all folders
AllFilenames ==
    UNION { { list_filenames(corpus, d, l_from)[i] :
                i \in 1..Len(list_filenames(corpus, d, l_from)) } : d \in Folders }

TargetLanguages == { l_to[i] : i \in 1..Len(l_to) }

InitRun ==
    /\ IdleModels
    /\ IdleLines
    /\ IdleFrench
    /\ IdleDetect
    /\ \E e \in Extractors :
           /\ l_from = e.l_from
           /\ l_to = e.l_to
           /\ \E a1 \in AlignmentFilesOf(e, "data1"), a2 \in AlignmentFilesOf(e, "data2") :
                  /\ WellNamed(e, a1)
                  /\ WellNamed(e, a2)
                  /\ corpus = [d \in Folders |->
                                  DocFiles({EN, NL, FR}, BasesOf(d))
                                      @@ (IF d = "data1" THEN a1 ELSE a2)]
    /\ sentence_ids \in { <<>>, << <<"2">> >> }
    /\ linkGrp = <<>>
    /\ alignment_trees = <<>>
    /\ raised = ""
    /\ call = NoCall
    /\ resolved = NotResolved
    /\ back = [segment_number |-> <<>>, result |-> NotResolved]
    /\ average = NotAveraged
    /\ alignment_xmls = <<>>
    /\ translation_trees = <<>>
    /\ results = <<>>
    /\ sorted_files = <<>>
    /\ builds = [k \in AllFilenames \X TargetLanguages |-> 0]
    /\ run = NoRun

\* The number of times x occurs in the list xs
Count(x, xs) == Cardinality({ i \in 1..Len(xs) : xs[i] = x })

\* The pairs (filename, language) for the languages built for a file
BuiltFor(filename, languages) ==
    [i \in 1..Len(languages) |-> <<filename, languages[i]>>]

\* results = self.process_file(filename)
ProcessFile(filename) ==
    /\ run.count < MaxOps
    /\ \E p \in { parse_alignment_trees(alignment_xmls, corpus[data_folder(filename)],
                                        l_from, l_to, filename, TRUE) } :
       \E f \in { IF p.raised # ""
                  THEN [raised |-> p.raised, results |-> <<>>]
                  ELSE fetch_results(l_from, l_to, sentence_ids, filename,
                                     corpus[data_folder(filename)][filename.path].sentences,
                                     p.alignment_trees, p.translation_trees) } :
           /\ alignment_xmls' = p.alignment_xmls
           /\ alignment_trees' = IF p.raised = "" THEN p.alignment_trees ELSE <<>>
           /\ translation_trees' = IF p.raised = "" THEN p.translation_trees ELSE <<>>
           /\ results' = f.results
           /\ raised' = f.raised
           /\ builds' = [k \in DOMAIN builds |->
                            builds[k] + Count(k, BuiltFor(filename, p.built))]
           /\ run' = [op |-> "process_file", count |-> run.count + 1,
                      files |-> <<filename>>, xmls_before |-> alignment_xmls,
                      built |-> BuiltFor(filename, p.built),
                      trees |-> IF p.raised = "" THEN filename :> p.alignment_trees
                                ELSE <<>>]
    /\ sorted_files' = <<>>
    /\ UNCHANGED <<modelsVars, detectVars, linesVars, frenchVars, corpus, sentence_ids,
                   l_from, l_to, linkGrp,
                   call, resolved, back, average>>

\* What the loop of sort_by_alignment_certainty has before the first file
SortStart(xmls) ==
    [raised |-> "", alignment_xmls |-> xmls, built |-> <<>>, filenames |-> <<>>,
     trees |-> <<>>]

\* The body of the loop of sort_by_alignment_certainty for one file, p being
\* what parse_alignment_trees gave for it and a the average of p
AverageFile(acc, filename, p, a) ==
    IF p.raised # "" \/ a.raised # ""
    THEN [acc EXCEPT !.raised = IF p.raised # "" THEN p.raised ELSE a.raised,
                     !.alignment_xmls = p.alignment_xmls,
                     !.built = @ \o BuiltFor(filename, p.built)]
    ELSE [acc EXCEPT !.alignment_xmls = p.alignment_xmls,
                     !.built = @ \o BuiltFor(filename, p.built),
                     !.filenames = (filename :> [num |-> a.num, den |-> a.den]) @@ @,
                     !.trees = (filename :> p.alignment_trees) @@ @]

RECURSIVE AverageFiles(_, _, _, _, _, _)
\* The loop of sort_by_alignment_certainty over the file names, from the
\* i-th on: the dict filenames, the cache, and the ghost list of the
\* alignments built and the ghost dict of the alignment_trees of each
\* file.  Each file is parsed once, with the cache the files
\* before it left.
AverageFiles(folders, lf, lt, names, i, acc) ==
    IF i > Len(names) \/ acc.raised # "" THEN acc
    ELSE CHOOSE result \in
             { AverageFiles(folders, lf, lt, names, i + 1, next) :
                 next \in { AverageFile(acc, names[i], p, average_alignment_certainty(
                                                              p.alignment_trees)) :
                            p \in { parse_alignment_trees(
                                        acc.alignment_xmls, folders[data_folder(names[i])],
                                        lf, lt, names[i], FALSE) } } } : TRUE

\* self.sort_by_alignment_certainty(dir_name)
SortByAlignmentCertainty(dir_name) ==
    /\ run.count < MaxOps
    /\ \E r \in { AverageFiles(corpus, l_from, l_to,
                               list_filenames(corpus, dir_name, l_from), 1,
                               SortStart(alignment_xmls)) } :
           /\ alignment_xmls' = r.alignment_xmls
           /\ raised' = r.raised
           /\ IF r.raised = "" THEN sorted_files' \in SortedByValue(r.filenames)
              ELSE sorted_files' = <<>>
           /\ builds' = [k \in DOMAIN builds |-> builds[k] + Count(k, r.built)]
           /\ run' = [op |-> "sort_by_alignment_certainty", count |-> run.count + 1,
                      files |-> list_filenames(corpus, dir_name, l_from),
                      xmls_before |-> alignment_xmls,
                      built |-> r.built, trees |-> r.trees]
    /\ alignment_trees' = <<>>
    /\ translation_trees' = <<>>
    /\ results' = <<>>
    /\ UNCHANGED <<modelsVars, detectVars, linesVars, frenchVars, corpus, sentence_ids,
                   l_from, l_to, linkGrp,
                   call, resolved, back, average>>

NextRun ==
    \/ \E filename \in AllFilenames : ProcessFile(filename)
    \/ \E dir_name \in Folders : SortByAlignmentCertainty(dir_name)

SpecRun == InitRun /\ [][NextRun]_vars

RunDone == run.op # "none"

\* The data folder of the file the last operation started with
RunFolder == data_folder(run.files[1])

\* No entry the cache had before the last operation was removed or replaced.
CacheKept ==
    \A l \in DOMAIN run.xmls_before :
        l \in DOMAIN alignment_xmls /\ alignment_xmls[l] = run.xmls_before[l]

\* An operation that found the cache empty filled it with the alignment
\* files of its data folder.
CacheFilled ==
    DOMAIN run.xmls_before = {} =>
        /\ DOMAIN alignment_xmls =
               { l \in TargetLanguages :
                   AlignmentFileNamed(l_from, l) \in DOMAIN corpus[RunFolder] }
        /\ \A l \in DOMAIN alignment_xmls :
               alignment_xmls[l] = corpus[RunFolder][AlignmentFileNamed(l_from, l)]

\* C11 (as stated): over any sequence of process_file and
\* sort_by_alignment_certainty operations the alignment index of a
\* (document, target language) pair is built at most once, and the cache
\* keyed by target language is filled on first access and never invalidated
\* or rebuilt.
C11_BuiltOnceOriginal ==
    RunDone =>
        /\ \A k \in DOMAIN builds : builds[k] <= 1
        /\ CacheKept
        /\ CacheFilled

\* C11 (amended): within one operation the index of a (document, target
\* language) pair is built at most once, and process_file hands the index it
\* built itself to the lookups of all sentences; the index is not kept
\* between operations.  What is cached per target language is the parsed
\* alignment file: filled by an operation that finds the cache empty, and
\* never replaced or removed afterwards.
C11_BuiltOncePerCallAmended ==
    RunDone =>
        /\ \A k \in DOMAIN builds :
               /\ Count(k, run.built) <= 1
               /\ builds[k] <= run.count
        /\ (run.op = "process_file" /\ raised = "") =>
               \A l \in DOMAIN alignment_trees :
                   Count(<<run.files[1], l>>, run.built) = 1
        /\ CacheKept
        /\ CacheFilled

\* A document was processed a second time (or after a sort): three rows
\* were returned from an index that was built again, with the cache filled
\* before the operation.
C11_Witness ==
    /\ run.op = "process_file"
    /\ raised = ""
    /\ Len(results) = 3
    /\ DOMAIN run.xmls_before # {}
    /\ \E l \in DOMAIN alignment_trees : builds[<<run.files[1], l>>] = 2

\* The links of trees with a known certainty, as (language, position) pairs
KnownLinksOf(trees) ==
    { p \in UNION { {<<l, i>> : i \in 1..Len(trees[l])} : l \in DOMAIN trees } :
        Truthy(trees[p[1]][p[2]].certainty) }

RECURSIVE KnownSumOf(_, _)
\* The sum, in tenths, of the certainties of a set of links of trees
KnownSumOf(trees, links) ==
    IF links = {} THEN 0
    ELSE LET p == CHOOSE q \in links : TRUE
         IN  Float(trees[p[1]][p[2]].certainty.value).tenths
                 + KnownSumOf(trees, links \ {p})

\* The mean of the known certainties of trees as a fraction of tenths, 0
\* when none is known
MeanOfKnown(trees) ==
    IF KnownLinksOf(trees) = {} THEN [num |-> 0, den |-> 1]
    ELSE [num |-> KnownSumOf(trees, KnownLinksOf(trees)),
          den |-> Cardinality(KnownLinksOf(trees))]

SortDone == run.op = "sort_by_alignment_certainty" /\ raised = ""

\* The list returned holds every listed document exactly once
EveryFileOnce ==
    /\ Len(sorted_files) = Len(run.files)
    /\ \A i \in 1..Len(run.files) : Count(run.files[i], sorted_files) = 1

\* C17: sort_by_alignment_certainty returns every listed document exactly
\* once, a document with a higher mean alignment certainty (the mean of the
\* known certainties of its links) before every document with a lower one.
C17_SortedByMean ==
    SortDone =>
        /\ EveryFileOnce
        /\ \A i, j \in 1..Len(sorted_files) :
               Greater(MeanOfKnown(run.trees[sorted_files[i]]),
                       MeanOfKnown(run.trees[sorted_files[j]])) => i < j

\* What does hold: the order is by the value average_alignment_certainty
\* gives, which counts a link without certainty as 0.
SortedByAverage ==
    SortDone =>
        /\ EveryFileOnce
        /\ \A i, j \in 1..Len(sorted_files) :
               LET ai == average_alignment_certainty(run.trees[sorted_files[i]])
                   aj == average_alignment_certainty(run.trees[sorted_files[j]])
               IN  Greater(ai, aj) => i < j

\* The last operation was a process_file whose parse_alignment_trees returned
Parsed == run.op = "process_file" /\ run.files[1] \in DOMAIN run.trees

\* The link groups of the cached alignment file of a language that name the
\* document processed, on the side of the source language
GroupsNaming(language_to) ==
    { k \in 1..Len(alignment_xmls[language_to].linkGrps) :
        LET g == alignment_xmls[language_to].linkGrps[k]
            named == IF StrLess(l_from, language_to) THEN g.fromDoc ELSE g.toDoc
        IN  named = l_from \o <<"/">> \o basename(run.files[1]) \o <<".", "g", "z">> }

\* The two fields of a row for the j-th target language
FieldsOf(row, j) == <<row[6 + 2 * j - 1], row[6 + 2 * j]>>

\* C21: parse_alignment_trees with translations included puts a target
\* language in translation_trees only if it puts it in alignment_trees, and
\* both only when exactly one link group matches the document; so
\* fetch_results never looks up the alignments of a language that has none,
\* and every row it emits has 6 + 2 * |target languages| fields, two empty
\* fields standing for each language without translation.
C21_RowWidth ==
    Parsed =>
        /\ DOMAIN translation_trees \subseteq DOMAIN alignment_trees
        /\ \A l \in DOMAIN alignment_trees \cup DOMAIN translation_trees :
               /\ l \in TargetLanguages
               /\ Cardinality(GroupsNaming(l)) = 1
        /\ raised # "KeyError"
        /\ \A k \in 1..Len(results) :
               /\ Len(results[k]) = 6 + 2 * Len(l_to)
               /\ \A j \in 1..Len(l_to) :
                      l_to[j] \notin DOMAIN translation_trees =>
                          FieldsOf(results[k], j) = << <<>>, <<>> >>

\* A document was processed that has a translation in the first target
\* language and none in the second: each of its three rows has ten fields,
\* the first row with a descriptor for the first language.
C21_Witness ==
    /\ Parsed
    /\ raised = ""
    /\ Len(results) = 3
    /\ l_to[1] \in DOMAIN translation_trees
    /\ l_to[2] \notin DOMAIN translation_trees
    /\ Len(results[1]) = 10
    /\ FieldsOf(results[1], 1)[1] # <<>>
    /\ FieldsOf(results[1], 2) = << <<>>, <<>> >>

(***************************************************************************)
(* src/dpc.py: get_translated_lines                                         *)
(***************************************************************************)

\* Segment numbers
S1 == <<"s", "1">>
S2 == <<"s", "2">>
S3 == <<"s", "3">>

\* <link targets="..."/>: the Dutch ids, '; ', the ids of the other language
DpcLink(nl_ids, other_ids) ==
    [nl_ids |-> nl_ids, other_ids |-> other_ids,
     targets |-> Join(nl_ids, <<" ">>) \o <<";", " ">> \o Join(other_ids, <<" ">>)]

\* The links of the alignment files: 1-1, 1-2, 2-1 and a second 1-1
DpcLinks ==
    { DpcLink(<<S1>>, <<S1>>), DpcLink(<<S2>>, <<S2, S3>>),
      DpcLink(<<S1, S2>>, <<S3>>), DpcLink(<<S3>>, <<S1>>) }

\* The name of the alignment file of a document for a language
TeiFile(document, language) ==
    document \o NL \o <<"-">> \o language \o <<"-", "t", "e", "i", ".", "x", "m", "l">>

\* document, as process_file passes it
Document == <<"d", "-">>

\* The language pairs PerfectExtractor is created with
DpcPairs ==
    { <<NL, EN>>, <<NL, FR>>, <<EN, NL>>, <<FR, NL>>, <<EN, FR>>, <<FR, EN>> }

NoLines == [done |-> FALSE, found |-> FALSE, ids |-> <<>>, raised |-> ""]

InitLines ==
    /\ IdleModels
    /\ IdleDetect
    /\ IdleEuroparl
    /\ IdleRun
    /\ IdleFrench
    /\ resolved = NotResolved
    /\ back = [segment_number |-> <<>>, result |-> NotResolved]
    /\ average = NotAveraged
    /\ \E pair \in DpcPairs, segment_number \in {S1, S2, S3} :
       \E files \in [ { TeiFile(Document, l) : l \in {EN, FR} } ->
                      SeqsUpTo(DpcLinks, MaxLinks) ] :
           dpc = [l_from |-> pair[1], l_to |-> pair[2], files |-> files,
                  document |-> Document, segment_number |-> segment_number,
                  translated_lines |-> NoLines]

\* Mutant of is_nl: the source language is never taken to be Dutch.
is_nl_never(lf) == 0

\* PerfectExtractor.is_nl
is_nl(lf) == IF lf = NL THEN 1 ELSE 0

\* a Python list indexed from 0
At(list, i) == list[i + 1]

RECURSIVE FirstLink(_, _, _, _)
\* The for loop over the links of the alignment tree, from the i-th on
FirstLink(lf, links, segment_number, i) ==
    IF i > Len(links) THEN [done |-> TRUE, found |-> FALSE, ids |-> <<>>, raised |-> ""]
    ELSE LET targets == Split(links[i].targets, <<";", " ">>)
         IN  IF Len(targets) < 2
             THEN [done |-> TRUE, found |-> FALSE, ids |-> <<>>, raised |-> "IndexError"]
             ELSE IF InList(segment_number, Split(At(targets, 1 - is_nl(lf)), <<" ">>))
             THEN [done |-> TRUE, found |-> TRUE,
                   ids |-> Split(At(targets, is_nl(lf)), <<" ">>), raised |-> ""]
             ELSE FirstLink(lf, links, segment_number, i + 1)

\* PerfectExtractor.get_translated_lines(document, segment_number) of dpc.py
dpc_get_translated_lines(lf, lt, files, document, segment_number) ==
    LET not_nl == IF is_nl(lf) = 1 THEN lt ELSE lf
    IN  IF TeiFile(document, not_nl) \notin DOMAIN files
        THEN [done |-> TRUE, found |-> FALSE, ids |-> <<>>, raised |-> "IOError"]
        ELSE FirstLink(lf, files[TeiFile(document, not_nl)], segment_number, 1)

\* translated_lines = self.get_translated_lines(document, seg_n)
DpcGetTranslatedLines ==
    /\ dpc # <<>>
    /\ ~dpc.translated_lines.done
    /\ dpc' = [dpc EXCEPT !.translated_lines =
                   dpc_get_translated_lines(dpc.l_from, dpc.l_to, dpc.files,
                                            dpc.document, dpc.segment_number)]
    /\ UNCHANGED <<modelsVars, detectVars, europarlVars, runVars, frenchVars>>

NextLines == DpcGetTranslatedLines

SpecLines == InitLines /\ [][NextLines]_vars

\* The links of the alignment file between Dutch and the other language of
\* the call
LinksRead ==
    dpc.files[TeiFile(dpc.document, IF dpc.l_from = NL THEN dpc.l_to ELSE dpc.l_from)]

\* The ids a link has on the side of the source language, and on the other
LookedUp(link) == IF dpc.l_from = NL THEN link.nl_ids ELSE link.other_ids
Returned(link) == IF dpc.l_from = NL THEN link.other_ids ELSE link.nl_ids

\* Link i is the first that holds the segment number on the source side
FirstMatching(i) ==
    /\ i \in 1..Len(LinksRead)
    /\ InList(dpc.segment_number, LookedUp(LinksRead[i]))
    /\ \A j \in 1..(i - 1) : ~InList(dpc.segment_number, LookedUp(LinksRead[j]))

\* C18: with Dutch as source language the segment number is looked up among
\* the ids before the semicolon and the ids after it are returned; with
\* another source language it is looked up after the semicolon and the ids
\* before are returned; the result is the whole id list of the first
\* matching link.
C18_Direction ==
    (dpc # <<>> /\ dpc.translated_lines.done) =>
        /\ dpc.translated_lines.raised = ""
        /\ \A i \in 1..Len(LinksRead) :
               FirstMatching(i) =>
                   /\ dpc.translated_lines.found
                   /\ dpc.translated_lines.ids = Returned(LinksRead[i])

\* From Dutch, s2 is not in the first link "s1; s1" and is found in the
\* second, "s2; s2 s3", a 1-to-2 alignment that gives two ids.
C18_Witness ==
    /\ dpc # <<>>
    /\ dpc.translated_lines.done
    /\ dpc.l_from = NL
    /\ dpc.segment_number = S2
    /\ LinksRead = <<DpcLink(<<S1>>, <<S1>>), DpcLink(<<S2>>, <<S2, S3>>)>>
    /\ FirstMatching(2)
    /\ dpc.translated_lines.ids = <<S2, S3>>

\* From French, s3 is found in the second link "s2; s2 s3", which gives the
\* one Dutch id.
ReverseLookup ==
    /\ dpc # <<>>
    /\ dpc.translated_lines.done
    /\ dpc.l_from = FR
    /\ dpc.segment_number = S3
    /\ LinksRead = <<DpcLink(<<S1>>, <<S1>>), DpcLink(<<S2>>, <<S2, S3>>)>>
    /\ dpc.translated_lines.ids = <<S2>>

(***************************************************************************)
(* EuroparlPoSExtractor and EuroparlFrenchArticleExtractor                  *)
(***************************************************************************)

\* <w id=... pos=... lem=...>text</w>
FrenchW(text, pos, lem) == [text |-> text, pos |-> pos, lem |-> lem]

\* The words tried: le, un, des (lemma du), de, au and a noun
FrenchWords ==
    { FrenchW(<<"l", "e">>, <<"D", "E", "T", ":", "A", "R", "T">>, <<"l", "e">>), FrenchW(<<"u", "n">>, <<"D", "E", "T", ":", "A", "R", "T">>, <<"u", "n">>), FrenchW(<<"d", "e", "s">>, <<"P", "R", "P", ":", "d", "e", "t">>, <<"d", "u">>),
      FrenchW(<<"d", "e">>, <<"P", "R", "P">>, <<"d", "e">>), FrenchW(<<"a", "u">>, <<"P", "R", "P", ":", "d", "e", "t">>, <<"a", "u">>), FrenchW(<<"v", "i", "n">>, <<"N", "O", "M">>, <<"v", "i", "n">>) }

\* str(n) for one digit
Digit(n) == << <<"0">>, <<"1">>, <<"2">>, <<"3">>, <<"4">>, <<"5">>, <<"6">>, <<"7">>,
               <<"8">>, <<"9">> >>[n + 1]

\* The sentence w1 of a document: the i-th word gets the id w1.i
Sentence(ws) ==
    [i \in 1..Len(ws) |->
        [text |-> ws[i].text, pos |-> ws[i].pos, lem |-> ws[i].lem,
         id |-> <<"w", "1", ".">> \o Digit(i), at |-> i]]

\* self.pos, self.lemmata_list and self.particles of the
\* EuroparlFrenchArticleExtractor
FrenchPos == <<<<"D", "E", "T", ":", "A", "R", "T">>, <<"P", "R", "P", ":", "d", "e", "t">>>>
FrenchLemmata == <<<<"l", "e">>, <<"u", "n">>, <<"d", "u">>>>
particles == <<<<"d", "e">>, <<"d", "u">>>>

\* s.endswith(suffix)
EndsWith(s, suffix) ==
    /\ Len(suffix) <= Len(s)
    /\ SubSeq(s, Len(s) - Len(suffix) + 1, Len(s)) = suffix

\* What preprocess_found gives: an exception, None, or a list of words
Removed == [raised |-> "", none |-> TRUE, words |-> <<>>]
Found(ws) == [raised |-> "", none |-> FALSE, words |-> ws]
Raised(exception) == [raised |-> exception, none |-> FALSE, words |-> <<>>]

\* EuroparlPoSExtractor.preprocess_found(word); position is 0 when
\* self.position is not set
pos_preprocess_found(lemmata_list, position, word) ==
    IF lemmata_list # <<>> /\ ~InList(word.lem, lemmata_list) THEN Removed
    ELSE IF position # 0 /\ ~EndsWith(word.id, <<".">> \o Digit(position)) THEN Removed
    ELSE Found(<<word>>)

\* w.getprevious(): the word before w in the sentence, if any
getprevious(sentence, w) ==
    IF w.at > 1 THEN Found(<<sentence[w.at - 1]>>) ELSE Removed

\* The body of the loop of EuroparlFrenchArticleExtractor.preprocess_found
WithParticle(sentence, w, word) ==
    IF ~getprevious(sentence, w).none
           /\ InList(getprevious(sentence, w).words[1].lem, particles)
    THEN <<getprevious(sentence, w).words[1], word>>
    ELSE <<word>>

\* EuroparlFrenchArticleExtractor.preprocess_found(word): the loop runs over
\* what the preprocess_found of EuroparlPoSExtractor returned, which is the
\* list [word] or None; iterating None raises a TypeError.
preprocess_found(lemmata_list, position, sentence, word) ==
    IF pos_preprocess_found(lemmata_list, position, word).none THEN Raised("TypeError")
    ELSE Found(WithParticle(sentence, word, word))

\* EuroparlFrenchArticleExtractor.get_type(words)
get_type(ws) ==
    LET article == IF ws[Len(ws)].lem = <<"l", "e">> THEN <<"d", "e", "f", "i", "n", "i", "t", "e">>
                   ELSE IF ws[Len(ws)].lem = <<"u", "n">> THEN <<"i", "n", "d", "e", "f", "i", "n", "i", "t", "e">>
                   ELSE <<>>
        partitive == IF InList(ws[1].lem, particles)
                     THEN (IF article # <<>> THEN article \o <<" ">> ELSE <<>>)
                              \o <<"p", "a", "r", "t", "i", "t", "i", "v", "e">>
                     ELSE article
    IN  IF ws[1].text = <<"d", "e", "s">> THEN <<"i", "n", "d", "e", "f", "i", "n", "i", "t", "e", "/", "p", "a", "r", "t", "i", "t", "i", "v", "e">> ELSE partitive

\* s.xpath(xpath): the words whose pos attribute is one of self.pos, by
\* contains(" {value} ", concat(" ", @pos, " "))
XpathWords(sentence, pos) ==
    SelectSeq(sentence,
              LAMBDA w : IsSubstring(<<" ">> \o w.pos \o <<" ">>,
                                     <<" ">> \o Join(pos, <<" ">>) \o <<" ">>))

\* The sentence id and the file processed
SentenceId == <<"1">>
FrenchFile == Filename("data1", FR \o <<"/">> \o EpA)

\* The row of fetch_results for the words found, no translation being
\* available for any target language
FrenchRow(lt, ws) ==
    << basename(FrenchFile), SentenceId, get_type(ws),
       Join([i \in 1..Len(ws) |-> ws[i].text], <<" ">>),
       Join([i \in 1..Len(ws) |-> ws[i].id], <<" ">>),
       Root(Tostring(SentenceId)) >>
        \o Flatten([i \in 1..Len(lt) |-> << <<>>, <<>> >>])

RECURSIVE FrenchRows(_, _, _, _, _, _)
\* The loop of EuroparlPoSExtractor.fetch_results over the words found in
\* a sentence, from the i-th on
FrenchRows(lt, position, sentence, found, i, rows) ==
    IF i > Len(found) THEN [raised |-> "", results |-> rows]
    ELSE IF preprocess_found(FrenchLemmata, position, sentence, found[i]).raised # ""
    THEN [raised |-> preprocess_found(FrenchLemmata, position, sentence, found[i]).raised,
          results |-> <<>>]
    ELSE IF preprocess_found(FrenchLemmata, position, sentence, found[i]).none
    THEN FrenchRows(lt, position, sentence, found, i + 1, rows)
    ELSE FrenchRows(lt, position, sentence, found, i + 1,
                    Append(rows, FrenchRow(lt, preprocess_found(FrenchLemmata, position,
                                                                sentence, found[i]).words)))

\* EuroparlPoSExtractor.fetch_results for a document of one sentence
pos_fetch_results(lt, position, sentence) ==
    FrenchRows(lt, position, sentence, XpathWords(sentence, FrenchPos), 1, <<>>)

NoFrenchRun == [op |-> "none", word |-> 0, found |-> Removed, results |-> <<>>,
                raised |-> ""]

\* EuroparlFrenchArticleExtractor('fr', ['en', 'nl']) with self.position
\* unset (0) or set, and a document of one sentence
InitFrench ==
    /\ IdleModels
    /\ IdleDetect
    /\ IdleLines
    /\ IdleEuroparl
    /\ IdleRun
    /\ resolved = NotResolved
    /\ back = [segment_number |-> <<>>, result |-> NotResolved]
    /\ average = NotAveraged
    /\ \E ws \in SeqsUpTo(FrenchWords, MaxWords), position \in 0..2 :
           french = [l_from |-> FR, l_to |-> <<EN, NL>>, position |-> position,
                     sentence |-> Sentence(ws), run |-> NoFrenchRun]

\* words = self.preprocess_found(w) for the word w of the sentence
PreprocessFound(w) ==
    /\ french # <<>>
    /\ french.run.op = "none"
    /\ w \in 1..Len(french.sentence)
    /\ \E r \in { preprocess_found(FrenchLemmata, french.position, french.sentence,
                                   french.sentence[w]) } :
           french' = [french EXCEPT !.run = [op |-> "preprocess_found", word |-> w,
                                             found |-> r, results |-> <<>>,
                                             raised |-> r.raised]]
    /\ UNCHANGED <<modelsVars, detectVars, linesVars, europarlVars, runVars>>

\* results = self.fetch_results(filename, s_trees, alignment_trees, {})
FrenchFetchResults ==
    /\ french # <<>>
    /\ french.run.op = "none"
    /\ \E r \in { pos_fetch_results(french.l_to, french.position, french.sentence) } :
           french' = [french EXCEPT !.run = [op |-> "fetch_results", word |-> 0,
                                             found |-> Removed, results |-> r.results,
                                             raised |-> r.raised]]
    /\ UNCHANGED <<modelsVars, detectVars, linesVars, europarlVars, runVars>>

NextFrench ==
    \/ \E w \in 1..MaxWords : PreprocessFound(w)
    \/ FrenchFetchResults

SpecFrench == InitFrench /\ [][NextFrench]_vars

\* The word is one preprocess_found removes: its lemma is not in the
\* lemmata list, or its position is not the one asked for
IsRemoved(word) ==
    \/ ~InList(word.lem, FrenchLemmata)
    \/ french.position # 0 /\ word.at # french.position

\* The word preceded by its previous element when that is a particle
Accepted(word) ==
    IF word.at > 1 /\ InList(french.sentence[word.at - 1].lem, particles)
    THEN <<french.sentence[word.at - 1], word>>
    ELSE <<word>>

\* The words of the sentence the extractor looks at
Candidates ==
    { i \in 1..Len(french.sentence) : InList(french.sentence[i].pos, FrenchPos) }

\* C19: preprocess_found removes, without raising, a word whose lemma is
\* not in the lemmata list or whose position does not match; for an
\* accepted word it returns the word preceded by its previous element when
\* the lemma of that element is a particle; fetch_results skips the removed
\* words and emits one row for each accepted word.
C19_RemovedWithoutRaising ==
    /\ (french # <<>> /\ french.run.op = "preprocess_found") =>
           LET word == french.sentence[french.run.word]
           IN  /\ french.run.raised = ""
               /\ IsRemoved(word) => french.run.found.words = <<>>
               /\ ~IsRemoved(word) => french.run.found = Found(Accepted(word))
    /\ (french # <<>> /\ french.run.op = "fetch_results") =>
           /\ french.run.raised = ""
           /\ Len(french.run.results) =
                  Cardinality({ i \in Candidates : ~IsRemoved(french.sentence[i]) })

\* What the code does for the accepted words, and in fetch_results when no
\* word of the sentence is removed
AcceptedWords ==
    /\ (french # <<>> /\ french.run.op = "preprocess_found") =>
           LET word == french.sentence[french.run.word]
           IN  IF IsRemoved(word) THEN french.run.raised = "TypeError"
               ELSE french.run.found = Found(Accepted(word))
    /\ (french # <<>> /\ french.run.op = "fetch_results") =>
           IF \E i \in Candidates : IsRemoved(french.sentence[i])
           THEN french.run.raised = "TypeError" /\ french.run.results = <<>>
           ELSE /\ french.run.raised = ""
                /\ Len(french.run.results) = Cardinality(Candidates)

\* "de le vin": the article is returned with the particle before it
ParticleKept ==
    /\ french # <<>>
    /\ french.run.op = "preprocess_found"
    /\ french.run.word = 2
    /\ french.run.found.words = <<french.sentence[1], french.sentence[2]>>
    /\ french.sentence[1].lem = <<"d", "e">>
====
